---------------------------- MODULE Spec2Model ----------------------------
(***************************************************************************)
(* dynamic-installer: installDependencies (src/src/index.ts, lines 1-191). *)
(*                                                                         *)
(* A JavaScript string is a sequence of one-character strings, so that the *)
(* regular expressions, split, join and trim of the source act on          *)
(* characters.  A JavaScript value that may be undefined, null, a string   *)
(* or an array of strings is a record [t, v] carrying its type tag.        *)
(***************************************************************************)
EXTENDS Naturals, Sequences, FiniteSets

VARIABLES
    installOptions, \* the InstallOptions object passed to installDependencies
    pc,          \* where the async function stands: loop, awaiting, resolved, returned
    idx,         \* position of the for..of loop in options.dependencies (1-based)
    logs,        \* the local logs array
    results,     \* the local results array
    console,     \* the lines handed to console.log, in order
    execCalls,   \* the calls of child_process.exec in order: the command string
                 \* handed over, and the loop position it was called at
    child,       \* the child process in flight, as <<command>>, or <<>>
    settled,     \* the value executeCommand's promise resolved with, as <<value>>, or <<>>
    report,      \* the value the promise of installDependencies resolved with, or <<>>
    exits,       \* the outcomes (error, stdout, stderr) the callbacks of exec received, in order
    suspended,   \* the invocations of installDependencies that are not running now: their
                 \* locals, as a sequence of frames (empty when there is one invocation)
    self,        \* which invocation the variables above belong to
    fn           \* a single validator applied to a single input: [kind, in, out]

vars == <<installOptions, pc, idx, logs, results, console, execCalls, child, settled, report,
         exits, suspended, self, fn>>

runVars == <<installOptions, pc, idx, logs, results, console, execCalls, child, settled, report,
            exits, suspended, self>>

(***************************************************************************)
(* Bounds of the model.                                                    *)
(***************************************************************************)
MaxDeps == 2

MaxNameLen == 3

MaxTokenLen == 6

MaxOptLen == 5

(***************************************************************************)
(* JavaScript values.                                                      *)
(***************************************************************************)
Undefined == [t |-> "undefined", v |-> <<>>]

Null == [t |-> "null", v |-> <<>>]

JsString(s) == [t |-> "string", v |-> s]

JsArray(a) == [t |-> "array", v |-> a]

\* An exception thrown in place of a value.
TypeError == [t |-> "throw", v |-> <<>>]

\* ToBoolean: undefined, null and the empty string are falsy; every array is truthy.
Truthy(x) ==
    CASE x.t = "undefined" -> FALSE
      [] x.t = "null" -> FALSE
      [] x.t = "string" -> x.v # <<>>
      [] OTHER -> TRUE

\* The elements a for..of loop or a spread visits: the elements of an array,
\* the one-character strings of a string.
Iterate(x) ==
    IF x.t = "string" THEN [k \in 1..Len(x.v) |-> <<x.v[k]>>] ELSE x.v

(***************************************************************************)
(* Character classes of the regular expressions.                           *)
(***************************************************************************)
Lower ==
    {"a", "b", "c", "d", "e", "f", "g", "h", "i", "j", "k", "l", "m",
     "n", "o", "p", "q", "r", "s", "t", "u", "v", "w", "x", "y", "z"}

Upper ==
    {"A", "B", "C", "D", "E", "F", "G", "H", "I", "J", "K", "L", "M",
     "N", "O", "P", "Q", "R", "S", "T", "U", "V", "W", "X", "Y", "Z"}

Digit == {"0", "1", "2", "3", "4", "5", "6", "7", "8", "9"}

\* \s of split(/\s+/) and of trim().
Whitespace == {" ", "\t", "\n", "\r", "\f"}

\* PACKAGE_NAME_REGEX = /^[@a-zA-Z0-9._/-]+$/
PackageNameClass_WithSemicolon ==
    Lower \cup Upper \cup Digit \cup {"@", ".", "_", "/", "-", ";"}

PackageNameClass == Lower \cup Upper \cup Digit \cup {"@", ".", "_", "/", "-"}

PACKAGE_NAME_REGEX_AllowEmpty(s) == \A k \in 1..Len(s) : s[k] \in PackageNameClass

PACKAGE_NAME_REGEX(s) ==
    /\ Len(s) >= 1
    /\ \A k \in 1..Len(s) : s[k] \in PackageNameClass

\* SHORT_FLAG_REGEX with any character after the hyphen: /^-.+$/
SHORT_FLAG_REGEX_AnyTail(s) ==
    /\ Len(s) >= 2
    /\ s[1] = "-"
    /\ \A k \in 2..Len(s) : s[k] # "\n"

\* SHORT_FLAG_REGEX = /^-[A-Za-z]+$/
SHORT_FLAG_REGEX(s) ==
    /\ Len(s) >= 2
    /\ s[1] = "-"
    /\ \A k \in 2..Len(s) : s[k] \in Lower \cup Upper

\* LONG_FLAG_REGEX = /^--[a-z]+(?:-[a-z]+)*$/ as the automaton that reads it:
\* 0 -'-'-> 1 -'-'-> 2 -[a-z]-> 3 -[a-z]-> 3, 3 -'-'-> 4 -[a-z]-> 3; 3 accepts.
LongFlagStep(q, c) ==
    CASE q = 0 /\ c = "-" -> 1
      [] q = 1 /\ c = "-" -> 2
      [] q = 2 /\ c \in Lower -> 3
      [] q = 3 /\ c \in Lower -> 3
      [] q = 3 /\ c = "-" -> 4
      [] q = 4 /\ c \in Lower -> 3
      [] OTHER -> 5

RECURSIVE LongFlagRun(_, _, _)
LongFlagRun(s, k, q) ==
    IF k > Len(s) THEN q ELSE LongFlagRun(s, k + 1, LongFlagStep(q, s[k]))

LONG_FLAG_REGEX_AnyCase(s) ==
    /\ Len(s) >= 3
    /\ s[1] = "-"
    /\ s[2] = "-"
    /\ \A k \in 3..Len(s) : s[k] \in Lower \cup Upper \cup {"-"}

LONG_FLAG_REGEX(s) == LongFlagRun(s, 1, 0) = 3

\* DISALLOWED_CHARS_REGEX: the character class of shell metacharacters; the
\* backquote character is written "backtick".
DisallowedChars ==
    {";", "&", "|", "$", "backtick", "<", ">", "\\", "*", "?",
     "(", ")", "{", "}", "[", "]", "~"}

DISALLOWED_CHARS_REGEX(s) == \E k \in 1..Len(s) : s[k] \in DisallowedChars

(***************************************************************************)
(* Validators.                                                             *)
(***************************************************************************)
\* isValidDependencyName refusing a name that begins with a hyphen.
isValidDependencyName_NoLeadingHyphen(name) ==
    PACKAGE_NAME_REGEX(name) /\ name[1] # "-"

isValidDependencyName(name) == PACKAGE_NAME_REGEX(name)

\* The condition of the if inside validateOptionTokens, negated.
TokenAccepted(token) ==
    /\ SHORT_FLAG_REGEX(token) \/ LONG_FLAG_REGEX(token)
    /\ ~DISALLOWED_CHARS_REGEX(token)

\* null when any visited token is rejected, the argument itself otherwise;
\* for..of over undefined or null throws.
validateOptionTokens(tokens) ==
    IF tokens.t \in {"undefined", "null"} THEN TypeError
    ELSE IF \E k \in 1..Len(Iterate(tokens)) : ~TokenAccepted(Iterate(tokens)[k])
    THEN Null
    ELSE tokens

\* options.split(/\s+/): cuts at every maximal run of whitespace, keeping the
\* empty strings before a leading and after a trailing run.
RECURSIVE SplitRun(_, _, _, _, _)
SplitRun(s, k, cur, inWs, acc) ==
    IF k > Len(s) THEN Append(acc, cur)
    ELSE IF s[k] \in Whitespace
         THEN IF inWs THEN SplitRun(s, k + 1, cur, TRUE, acc)
              ELSE SplitRun(s, k + 1, <<>>, TRUE, Append(acc, cur))
         ELSE SplitRun(s, k + 1, Append(cur, s[k]), FALSE, acc)

SplitWhitespace(s) == SplitRun(s, 1, <<>>, FALSE, <<>>)

\* .filter(Boolean) on an array of strings drops the empty strings.
FilterBoolean(a) == SelectSeq(a, LAMBDA e : e # <<>>)

\* parseAndValidateOptions with absent options reported as invalid.
parseAndValidateOptions_AbsentAsInvalid(options) ==
    IF ~Truthy(options) THEN Null
    ELSE IF options.t = "array" THEN validateOptionTokens(options)
    ELSE validateOptionTokens(JsArray(FilterBoolean(SplitWhitespace(options.v))))

parseAndValidateOptions(options) ==
    IF ~Truthy(options) THEN JsArray(<<>>)
    ELSE IF options.t = "array" THEN validateOptionTokens(options)
    ELSE validateOptionTokens(JsArray(FilterBoolean(SplitWhitespace(options.v))))

(***************************************************************************)
(* String helpers: Array.prototype.join, String.prototype.trim, and the    *)
(* literals of the source.                                                 *)
(***************************************************************************)
RECURSIVE Join(_, _)
Join(a, sep) ==
    IF a = <<>> THEN <<>>
    ELSE IF Len(a) = 1 THEN a[1]
    ELSE a[1] \o sep \o Join(Tail(a), sep)

RECURSIVE TrimStart(_)
TrimStart(s) ==
    IF s # <<>> /\ s[1] \in Whitespace THEN TrimStart(Tail(s)) ELSE s

RECURSIVE TrimEnd(_)
TrimEnd(s) ==
    IF s # <<>> /\ s[Len(s)] \in Whitespace
    THEN TrimEnd(SubSeq(s, 1, Len(s) - 1))
    ELSE s

Trim(s) == TrimEnd(TrimStart(s))

NPM_INSTALL == <<"n", "p", "m", " ", "i", "n", "s", "t", "a", "l", "l">>

INVALID_NAME ==
    <<"I", "n", "v", "a", "l", "i", "d", " ", "d", "e", "p", "e", "n", "d",
      "e", "n", "c", "y", " ", "n", "a", "m", "e", ":", " ">>

INVALID_OPTIONS ==
    <<"I", "n", "v", "a", "l", "i", "d", " ", "o", "p", "t", "i", "o", "n",
      "s", " ", "f", "o", "r", " ", "d", "e", "p", "e", "n", "d", "e", "n",
      "c", "y", ":", " ">>

\* The literal of the command line, abbreviated.
COMMAND_Abbreviated == <<"c", "m", "d", ":", " ">>

COMMAND_ == <<"c", "o", "m", "m", "a", "n", "d", ":", " ">>

STDOUT_ == <<"s", "t", "d", "o", "u", "t", ":", " ">>

STDERR_ == <<"s", "t", "d", "e", "r", "r", ":", " ">>

ERROR_ == <<"e", "r", "r", "o", "r", ":", " ">>

NONE == <<"n", "o", "n", "e">>

SUCCESS_ == <<"s", "u", "c", "c", "e", "s", "s", ":", " ">>

MESSAGE_ == <<",", " ", "m", "e", "s", "s", "a", "g", "e", ":", " ">>

\* `${b}` of a boolean.
BoolText(b) == IF b THEN <<"t", "r", "u", "e">> ELSE <<"f", "a", "l", "s", "e">>

(***************************************************************************)
(* logMessage(message, verbose, logs): logs.push(message), and             *)
(* console.log(message) when verbose.  The two operators give the new      *)
(* value of the array and of the console.                                  *)
(***************************************************************************)
\* logMessage with the entry of the earlier versions: a date ahead of the
\* message.
logMessage_Timestamped(message, logsArr) ==
    Append(logsArr,
           <<"2", "0", "2", "4", "-", "1", "1", "-", "1", "2", " ", "-", " ">> \o message)

logMessage(message, logsArr) == Append(logsArr, message)

\* logMessageConsole without the call of console.log.
logMessageConsole_Silent(message, isVerbose, sink) == sink

logMessageConsole(message, isVerbose, sink) ==
    IF isVerbose THEN Append(sink, message) ELSE sink

(***************************************************************************)
(* installDependencies: the destructuring of its argument and of one       *)
(* dependency, with the defaults of the source.                            *)
(***************************************************************************)
\* const { globalOptions = [] } = options: the default stands in for undefined only.
globalOptionsOf(o) ==
    IF o.globalOptions.t = "undefined" THEN JsArray(<<>>) ELSE o.globalOptions

\* verboseOf with false as the default.
verboseOf_DefaultFalse(o) == o.verbose = "true"

\* const { verbose = true } = options
verboseOf(o) == IF o.verbose = "undefined" THEN TRUE ELSE o.verbose = "true"

\* const { override = false } = dep
overrideOf(dep) == IF dep.override = "undefined" THEN FALSE ELSE dep.override = "true"

\* validGlobalOptions with a failed validation coerced to the empty list.
validGlobalOptions_NullAsEmpty(o) ==
    IF Truthy(globalOptionsOf(o)) /\ validateOptionTokens(globalOptionsOf(o)).t # "null"
    THEN validateOptionTokens(globalOptionsOf(o))
    ELSE JsArray(<<>>)

\* validGlobalOptions without the test of globalOptions.
validGlobalOptions_Unguarded(o) == validateOptionTokens(globalOptionsOf(o))

\* const validGlobalOptions = globalOptions ? validateOptionTokens(globalOptions) : []
validGlobalOptions(o) ==
    IF Truthy(globalOptionsOf(o))
    THEN validateOptionTokens(globalOptionsOf(o))
    ELSE JsArray(<<>>)

\* const validDepOptions = parseAndValidateOptions(dep.options)
validDepOptions(dep) == parseAndValidateOptions(dep.options)

\* An exception thrown by one of the two validations leaves the loop body
\* and the async function: its promise rejects.
Throws(o, dep) == validGlobalOptions(o).t = "throw" \/ validDepOptions(dep).t = "throw"

\* optionsRejected with the global options checked whatever the override flag.
optionsRejected_GlobalAlways(o, dep) ==
    validGlobalOptions(o).t = "null" \/ validDepOptions(dep).t = "null"

\* optionsRejected with an overriding dependency never rejected.
optionsRejected_OverrideUnchecked(o, dep) ==
    /\ ~overrideOf(dep)
    /\ validGlobalOptions(o).t = "null" \/ validDepOptions(dep).t = "null"

\* The condition of the "Invalid options" branch.
optionsRejected(o, dep) ==
    \/ overrideOf(dep) /\ validDepOptions(dep).t = "null"
    \/ /\ ~overrideOf(dep)
       /\ validGlobalOptions(o).t = "null" \/ validDepOptions(dep).t = "null"

\* finalOptions with the dependency's tokens ahead of the global ones.
finalOptions_DepFirst(o, dep) ==
    IF overrideOf(dep)
    THEN Iterate(validDepOptions(dep))
    ELSE Iterate(validDepOptions(dep))
         \o (IF validGlobalOptions(o).t = "null" THEN <<>> ELSE Iterate(validGlobalOptions(o)))

\* override ? validDepOptions : [...(validGlobalOptions ?? []), ...validDepOptions]
finalOptions(o, dep) ==
    IF overrideOf(dep)
    THEN Iterate(validDepOptions(dep))
    ELSE (IF validGlobalOptions(o).t = "null" THEN <<>> ELSE Iterate(validGlobalOptions(o)))
         \o Iterate(validDepOptions(dep))

\* ['npm install', name, ...finalOptions].join(' ').trim()
depCommand(o, dep) ==
    Trim(Join(<<NPM_INSTALL, dep.name>> \o finalOptions(o, dep), <<" ">>))

(***************************************************************************)
(* executeCommand: what the callback of exec computes from the outcome     *)
(* (error, stdout, stderr) of the child process.                           *)
(***************************************************************************)
JsError(message) == [t |-> "error", v |-> message]

\* const success = !error
successOf(outcome) == ~Truthy(outcome.error)

\* messageOf with the standard error text preferred to the standard output.
messageOf_StderrFirst(outcome) ==
    IF Truthy(outcome.error) THEN outcome.error.v
    ELSE IF outcome.stderr # <<>> THEN outcome.stderr
    ELSE outcome.stdout

\* const message = error ? error.message : (stdout || stderr)
messageOf(outcome) ==
    IF Truthy(outcome.error) THEN outcome.error.v
    ELSE IF outcome.stdout # <<>> THEN outcome.stdout
    ELSE outcome.stderr

\* callbackLines with the summary logged ahead of the streams.
callbackLines_SummaryFirst(command, outcome) ==
    << COMMAND_ \o command,
       SUCCESS_ \o BoolText(successOf(outcome)) \o MESSAGE_ \o messageOf(outcome),
       STDOUT_ \o outcome.stdout,
       STDERR_ \o outcome.stderr,
       ERROR_ \o (IF Truthy(outcome.error) THEN outcome.error.v ELSE NONE) >>

\* callbackLines without the line of the standard error.
callbackLines_WithoutStderr(command, outcome) ==
    << COMMAND_ \o command,
       STDOUT_ \o outcome.stdout,
       ERROR_ \o (IF Truthy(outcome.error) THEN outcome.error.v ELSE NONE),
       SUCCESS_ \o BoolText(successOf(outcome)) \o MESSAGE_ \o messageOf(outcome) >>

\* The five messages the callback logs, in the order of its logMessage calls.
callbackLines(command, outcome) ==
    << COMMAND_ \o command,
       STDOUT_ \o outcome.stdout,
       STDERR_ \o outcome.stderr,
       ERROR_ \o (IF Truthy(outcome.error) THEN outcome.error.v ELSE NONE),
       SUCCESS_ \o BoolText(successOf(outcome)) \o MESSAGE_ \o messageOf(outcome) >>

(***************************************************************************)
(* The inputs of a run.                                                    *)
(***************************************************************************)
\* Dependency lists of up to MaxDeps declarations over a few values each.
DepNames == { <<".", ".", "/", "e", "v", "i", "l">>, <<"a", ";">> }

DepOptionValues ==
    { Undefined,
      JsArray(<< <<"-", "D">> >>),
      JsArray(<< <<"-", "D">>, <<"-", "-", "S", "a", "v", "e">> >>) }

GlobalOptionValues ==
    { Undefined,
      JsArray(<< <<"-", "-", "x">> >>),
      JsArray(<< <<"-", "-", "x">>, <<";", " ", "r", "m">> >>) }

TriState == {"undefined", "true", "false"}

Dependencies == [name : DepNames, options : DepOptionValues, override : TriState]

DependencyLists == UNION { [1..n -> Dependencies] : n \in 0..MaxDeps }

\* A single declaration over many values: names and options in every shape a
\* caller can pass, as arrays and as strings.
WideNames ==
    { <<".", ".", "/", "e", "v", "i", "l">>,
      <<"@", "s", "c", "o", "p", "e", "/", ".", ".", "/", "e", "v", "i", "l">>,
      <<"-", "g">>,
      <<"-", "-", "S">>,
      <<>>,
      <<"a", ";">>,
      <<"a", " ", "b">>,
      <<"a", "'">>,
      <<"a", "\n">>,
      <<"$", "(", "a", ")">> }

WideDepOptionValues ==
    { Undefined,
      JsArray(<<>>),
      JsString(<<>>),
      JsString(<<" ">>),
      JsArray(<< <<"-", "D">> >>),
      JsArray(<< <<"-", "-", "a", "-", "b">>, <<"-", "D">> >>),
      JsArray(<< <<"-", "D">>, <<"-", "-", "S", "a", "v", "e">> >>),
      JsArray(<< <<"-", "-", "x", ";", " ", "r", "m">> >>),
      JsArray(<< <<"-", "D", " ", "-", "g">> >>),
      JsArray(<< <<>> >>),
      JsString(<<"-", "D">>),
      JsString(<<" ", "-", "-", "x", " ", "\t", "-", "D", " ">>),
      JsString(<<"-", "D", ";", " ", "l", "s">>),
      JsString(<<"-", "D", " ", "'", "a", "'">>) }

WideGlobalOptionValues ==
    { Undefined,
      Null,
      JsArray(<<>>),
      JsString(<<>>),
      JsArray(<< <<"-", "D">> >>),
      JsArray(<< <<"-", "g">>, <<"-", "-", "x">> >>),
      JsArray(<< <<"-", "-", "x">>, <<";", " ", "r", "m">> >>),
      JsArray(<< <<"-", "-", "S", "a", "v", "e">> >>),
      JsString(<<"-", "-", "x">>) }

WideDependencies ==
    [name : WideNames, options : WideDepOptionValues, override : TriState]

InstallOptionsValues ==
    [dependencies : DependencyLists, globalOptions : GlobalOptionValues, verbose : TriState]
    \cup
    [dependencies : { <<d>> : d \in WideDependencies },
     globalOptions : WideGlobalOptionValues, verbose : TriState]

\* What a child process can report to the callback of exec.
ExecFailure == JsError(<<"f", "a", "i", "l">>)

ExecOutcomes ==
    { [error |-> ExecFailure, stdout |-> <<"o", "k">>, stderr |-> <<"w", "a", "r", "n">>],
      [error |-> Null, stdout |-> <<"o", "k">>, stderr |-> <<"w", "a", "r", "n">>],
      [error |-> Null, stdout |-> <<>>, stderr |-> <<"w", "a", "r", "n">>],
      [error |-> Null, stdout |-> <<>>, stderr |-> <<>>] }

IdleFn == [kind |-> "none", in |-> <<>>, out |-> <<>>]

(***************************************************************************)
(* installDependencies as a state machine.                                 *)
(***************************************************************************)
Init ==
    /\ installOptions \in InstallOptionsValues
    /\ pc = "loop"
    /\ idx = 1
    /\ logs = <<>>
    /\ results = <<>>
    /\ console = <<>>
    /\ execCalls = <<>>
    /\ child = <<>>
    /\ settled = <<>>
    /\ report = <<>>
    /\ exits = <<>>
    /\ suspended = <<>>
    /\ self = 1
    /\ fn = IdleFn

InLoop == pc = "loop" /\ idx <= Len(installOptions.dependencies)

CurrentDep == installOptions.dependencies[idx]

\* A validation failure: log the message, push the failed result, continue.
Reject(errorMessage) ==
    /\ logs' = logMessage(errorMessage, logs)
    /\ console' = logMessageConsole(errorMessage, verboseOf(installOptions), console)
    /\ results' = Append(results,
                         [name |-> CurrentDep.name, success |-> FALSE, message |-> errorMessage])
    /\ idx' = idx + 1
    /\ UNCHANGED <<installOptions, pc, execCalls, child, settled, report,
                 exits, suspended, self, fn>>

\* RejectName without its results.push.
RejectName_WithoutResult ==
    /\ InLoop
    /\ ~isValidDependencyName(CurrentDep.name)
    /\ logs' = logMessage(INVALID_NAME \o CurrentDep.name, logs)
    /\ console' = logMessageConsole(INVALID_NAME \o CurrentDep.name,
                                    verboseOf(installOptions), console)
    /\ idx' = idx + 1
    /\ UNCHANGED <<installOptions, pc, results, execCalls, child, settled, report,
                 exits, suspended, self, fn>>

\* if (!isValidDependencyName(name)) { ...; continue; }
RejectName ==
    /\ InLoop
    /\ ~isValidDependencyName(CurrentDep.name)
    /\ Reject(INVALID_NAME \o CurrentDep.name)

\* RejectOptions placed before the check of the name.
RejectOptions_BeforeName ==
    /\ InLoop
    /\ optionsRejected(installOptions, CurrentDep)
    /\ Reject(INVALID_OPTIONS \o CurrentDep.name)

\* if ((override && validDepOptions === null) || ...) { ...; continue; }
RejectOptions ==
    /\ InLoop
    /\ isValidDependencyName(CurrentDep.name)
    /\ ~Throws(installOptions, CurrentDep)
    /\ optionsRejected(installOptions, CurrentDep)
    /\ Reject(INVALID_OPTIONS \o CurrentDep.name)

\* Spawn without the await: the loop goes on while the process runs.
Spawn_WithoutAwait ==
    /\ InLoop
    /\ isValidDependencyName(CurrentDep.name)
    /\ ~Throws(installOptions, CurrentDep)
    /\ ~optionsRejected(installOptions, CurrentDep)
    /\ execCalls' = Append(execCalls,
                           [command |-> depCommand(installOptions, CurrentDep),
                            forDep |-> idx])
    /\ child' = <<depCommand(installOptions, CurrentDep)>>
    /\ idx' = idx + 1
    /\ UNCHANGED <<installOptions, pc, logs, results, console, settled, report,
                 exits, suspended, self, fn>>

\* Spawn with exec called twice for the dependency.
Spawn_Twice ==
    /\ InLoop
    /\ isValidDependencyName(CurrentDep.name)
    /\ ~Throws(installOptions, CurrentDep)
    /\ ~optionsRejected(installOptions, CurrentDep)
    /\ execCalls' = execCalls
                    \o << [command |-> depCommand(installOptions, CurrentDep), forDep |-> idx],
                          [command |-> depCommand(installOptions, CurrentDep), forDep |-> idx] >>
    /\ child' = <<depCommand(installOptions, CurrentDep)>>
    /\ pc' = "awaiting"
    /\ UNCHANGED <<installOptions, idx, logs, results, console, settled, report,
                 exits, suspended, self, fn>>

\* Spawn with the dependency's tokens pushed onto validGlobalOptions, which
\* is the array the caller passed as globalOptions.
Spawn_PushingOntoGlobal ==
    /\ InLoop
    /\ isValidDependencyName(CurrentDep.name)
    /\ ~Throws(installOptions, CurrentDep)
    /\ ~optionsRejected(installOptions, CurrentDep)
    /\ execCalls' = Append(execCalls,
                           [command |-> depCommand(installOptions, CurrentDep),
                            forDep |-> idx])
    /\ child' = <<depCommand(installOptions, CurrentDep)>>
    /\ pc' = "awaiting"
    /\ installOptions' =
         IF ~overrideOf(CurrentDep) /\ installOptions.globalOptions.t = "array"
         THEN [installOptions EXCEPT
                 !.globalOptions = JsArray(finalOptions(installOptions, CurrentDep))]
         ELSE installOptions
    /\ UNCHANGED <<idx, logs, results, console, settled, report,
                 exits, suspended, self, fn>>

\* Spawn with the command logged by executeCommand before it calls exec.
Spawn_LoggingCommand ==
    /\ InLoop
    /\ isValidDependencyName(CurrentDep.name)
    /\ ~Throws(installOptions, CurrentDep)
    /\ ~optionsRejected(installOptions, CurrentDep)
    /\ execCalls' = Append(execCalls,
                           [command |-> depCommand(installOptions, CurrentDep),
                            forDep |-> idx])
    /\ child' = <<depCommand(installOptions, CurrentDep)>>
    /\ pc' = "awaiting"
    /\ logs' = logMessage(COMMAND_ \o depCommand(installOptions, CurrentDep), logs)
    /\ console' = logMessageConsole(COMMAND_ \o depCommand(installOptions, CurrentDep),
                                    verboseOf(installOptions), console)
    /\ UNCHANGED <<installOptions, idx, results, settled, report,
                 exits, suspended, self, fn>>

\* executeCommand(depCommand, verbose, logs) up to the call of exec; the async
\* function then waits for the promise.
Spawn ==
    /\ InLoop
    /\ isValidDependencyName(CurrentDep.name)
    /\ ~Throws(installOptions, CurrentDep)
    /\ ~optionsRejected(installOptions, CurrentDep)
    /\ execCalls' = Append(execCalls,
                           [command |-> depCommand(installOptions, CurrentDep),
                            forDep |-> idx])
    /\ child' = <<depCommand(installOptions, CurrentDep)>>
    /\ pc' = "awaiting"
    /\ UNCHANGED <<installOptions, idx, logs, results, console, settled, report,
                 exits, suspended, self, fn>>

\* The callback of exec: five logMessage calls, then resolve.
ExecCallback ==
    /\ pc = "awaiting"
    /\ \E outcome \in ExecOutcomes :
         LET lines == callbackLines(child[1], outcome)
             newLogs == logs \o lines
         IN /\ logs' = newLogs
            /\ console' = IF verboseOf(installOptions) THEN console \o lines ELSE console
            /\ exits' = Append(exits, outcome)
            /\ settled' = << [success |-> successOf(outcome),
                              message |-> messageOf(outcome),
                              logs |-> Join(newLogs, <<"\n">>)] >>
    /\ child' = <<>>
    /\ pc' = "resolved"
    /\ UNCHANGED <<installOptions, idx, results, execCalls, report, suspended, self, fn>>

\* Resume with the loop left at the first failed process.
Resume_StopOnFailure ==
    /\ pc = "resolved"
    /\ results' = Append(results,
                         [name |-> CurrentDep.name,
                          success |-> settled[1].success,
                          message |-> settled[1].message])
    /\ settled' = <<>>
    /\ idx' = IF settled[1].success THEN idx + 1 ELSE Len(installOptions.dependencies) + 1
    /\ pc' = "loop"
    /\ UNCHANGED <<installOptions, logs, console, execCalls, child, report,
                 exits, suspended, self, fn>>

\* The async function resumes after the await: results.push, next iteration.
Resume ==
    /\ pc = "resolved"
    /\ results' = Append(results,
                         [name |-> CurrentDep.name,
                          success |-> settled[1].success,
                          message |-> settled[1].message])
    /\ settled' = <<>>
    /\ idx' = idx + 1
    /\ pc' = "loop"
    /\ UNCHANGED <<installOptions, logs, console, execCalls, child, report,
                 exits, suspended, self, fn>>

\* Return with results.some in place of results.every.
Return_SomeSucceeded ==
    /\ pc = "loop"
    /\ idx > Len(installOptions.dependencies)
    /\ report' = << [success |-> \E k \in 1..Len(results) : results[k].success,
                     details |-> results,
                     logs |-> Join(logs, <<"\n">>),
                     logsArray |-> logs] >>
    /\ pc' = "returned"
    /\ UNCHANGED <<installOptions, idx, logs, results, console, execCalls, child, settled,
                 exits, suspended, self, fn>>

\* Return with the lines of the console reported as the log.
Return_LogsFromConsole ==
    /\ pc = "loop"
    /\ idx > Len(installOptions.dependencies)
    /\ report' = << [success |-> \A k \in 1..Len(results) : results[k].success,
                     details |-> results,
                     logs |-> Join(console, <<"\n">>),
                     logsArray |-> console] >>
    /\ pc' = "returned"
    /\ UNCHANGED <<installOptions, idx, logs, results, console, execCalls, child, settled,
                 exits, suspended, self, fn>>

\* Return with the lines of logs joined by single spaces.
Return_JoinedBySpaces ==
    /\ pc = "loop"
    /\ idx > Len(installOptions.dependencies)
    /\ report' = << [success |-> \A k \in 1..Len(results) : results[k].success,
                     details |-> results,
                     logs |-> Join(logs, <<" ">>),
                     logsArray |-> logs] >>
    /\ pc' = "returned"
    /\ UNCHANGED <<installOptions, idx, logs, results, console, execCalls, child, settled,
                 exits, suspended, self, fn>>

\* Return with a time limit on the await: the function gives up on a
\* process in flight and reports what it has.
Return_WhileAwaiting ==
    /\ \/ pc = "loop" /\ idx > Len(installOptions.dependencies)
       \/ pc = "awaiting"
    /\ report' = << [success |-> \A k \in 1..Len(results) : results[k].success,
                     details |-> results,
                     logs |-> Join(logs, <<"\n">>),
                     logsArray |-> logs] >>
    /\ pc' = "returned"
    /\ UNCHANGED <<installOptions, idx, logs, results, console, execCalls, child, settled,
                 exits, suspended, self, fn>>

\* After the loop: the aggregate report.
Return ==
    /\ pc = "loop"
    /\ idx > Len(installOptions.dependencies)
    /\ report' = << [success |-> \A k \in 1..Len(results) : results[k].success,
                     details |-> results,
                     logs |-> Join(logs, <<"\n">>),
                     logsArray |-> logs] >>
    /\ pc' = "returned"
    /\ UNCHANGED <<installOptions, idx, logs, results, console, execCalls, child, settled,
                 exits, suspended, self, fn>>

Next ==
    \/ RejectName
    \/ RejectOptions
    \/ Spawn
    \/ ExecCallback
    \/ Resume
    \/ Return

Spec == Init /\ [][Next]_vars

(***************************************************************************)
(* The validators on their own: one validator applied to one input.        *)
(***************************************************************************)
\* The same run when every child process completes: the callback of exec is
\* called for every process spawned, and the event loop runs what is ready.
FairInit ==
    /\ Init
    /\ installOptions \in [dependencies : DependencyLists,
                           globalOptions : GlobalOptionValues, verbose : TriState]

FairSpec == FairInit /\ [][Next]_vars /\ WF_vars(Next)

(***************************************************************************)
(* Two invocations of installDependencies in one event loop.  Each call    *)
(* has its own options, logs and results (lines 134-136), promise and      *)
(* position; the console is the one thing they share.  The variables hold  *)
(* the invocation whose code runs, suspended the other one.                *)
(***************************************************************************)
\* The locals of the invocation that runs.
Frame ==
    [id |-> self, installOptions |-> installOptions, pc |-> pc, idx |-> idx,
     logs |-> logs, results |-> results, execCalls |-> execCalls, child |-> child,
     settled |-> settled, report |-> report, exits |-> exits]

\* The locals of an invocation at its call.
NewFrame(id, o) ==
    [id |-> id, installOptions |-> o, pc |-> "loop", idx |-> 1,
     logs |-> <<>>, results |-> <<>>, execCalls |-> <<>>, child |-> <<>>,
     settled |-> <<>>, report |-> <<>>, exits |-> <<>>]

\* Yield with logs a single array of the module, not a local of the call.
Yield_SharedLogs ==
    /\ suspended # <<>>
    /\ pc \in {"awaiting", "returned"}
    /\ self' = suspended[1].id
    /\ installOptions' = suspended[1].installOptions
    /\ pc' = suspended[1].pc
    /\ idx' = suspended[1].idx
    /\ results' = suspended[1].results
    /\ execCalls' = suspended[1].execCalls
    /\ child' = suspended[1].child
    /\ settled' = suspended[1].settled
    /\ report' = suspended[1].report
    /\ exits' = suspended[1].exits
    /\ suspended' = Append(Tail(suspended), Frame)
    /\ UNCHANGED <<logs, console, fn>>

\* The running invocation waits at its await, or has returned: the event
\* loop runs code of the other invocation with that invocation's locals.
Yield ==
    /\ suspended # <<>>
    /\ pc \in {"awaiting", "returned"}
    /\ self' = suspended[1].id
    /\ installOptions' = suspended[1].installOptions
    /\ pc' = suspended[1].pc
    /\ idx' = suspended[1].idx
    /\ logs' = suspended[1].logs
    /\ results' = suspended[1].results
    /\ execCalls' = suspended[1].execCalls
    /\ child' = suspended[1].child
    /\ settled' = suspended[1].settled
    /\ report' = suspended[1].report
    /\ exits' = suspended[1].exits
    /\ suspended' = Append(Tail(suspended), Frame)
    /\ UNCHANGED <<console, fn>>

\* The dependency lists of the two callers: one or two declarations each.
\* The second caller passes a list of its own, or the configuration of the
\* first.
FirstDependencies ==
    [name : { <<"a">>, <<"a", ";">> },
     options : { Undefined, JsArray(<< <<"-", "D">> >>), JsArray(<< <<"-", "-", "S">> >>) },
     override : {"undefined"}]

SecondDependencies ==
    [name : { <<"b">>, <<"b", ";">> }, options : { Undefined }, override : {"undefined"}]

ListsOver(deps) == { <<d>> : d \in deps } \cup { <<d, e>> : d \in deps, e \in deps }

InitTwo ==
    /\ installOptions \in [dependencies : ListsOver(FirstDependencies),
                           globalOptions : {Undefined}, verbose : {"undefined"}]
    /\ \E o \in [dependencies : ListsOver(SecondDependencies),
                 globalOptions : {Undefined}, verbose : {"undefined"}]
               \cup {installOptions} :
         suspended = <<NewFrame(2, o)>>
    /\ self = 1
    /\ pc = "loop"
    /\ idx = 1
    /\ logs = <<>>
    /\ results = <<>>
    /\ console = <<>>
    /\ execCalls = <<>>
    /\ child = <<>>
    /\ settled = <<>>
    /\ report = <<>>
    /\ exits = <<>>
    /\ fn = IdleFn

NextTwo ==
    \/ Next
    \/ Yield

SpecTwo == InitTwo /\ [][NextTwo]_vars

\* All strings of at most n characters over an alphabet.
Strings(alphabet, n) == UNION { [1..k -> alphabet] : k \in 0..n }

NameAlphabet == {"a", "Z", "1", "@", ".", "_", "/", "-", ";", " "}

TokenAlphabet == {"-", "a", "S", "1", ";", " "}

OptAlphabet == {"-", "a", " ", "\t", ";"}

PairTokens == { <<"-", "a">>, <<"-", "-", "a">>, <<"-", "-", "S">>, <<"a">>, <<>> }

\* The tokens of the README and of the tests.
ExampleTokens ==
    { <<"-", "-", "S", "a", "v", "e">>,
      <<"-", "-">>,
      <<"-">>,
      <<"-", "-", "s", "a", "v", "e", "-", "-", "d", "e", "v">>,
      <<"-", "-", "s", "a", "v", "e", "-">>,
      <<>>,
      <<"-", "-", "s", "a", "v", "e", "-", "d", "e", "v">>,
      <<"-", "D">>,
      <<"-", "-", "n", "o", "-", "s", "a", "v", "e", ";", " ", "r", "m", " ", "-", "r", "f", " ", "/">> }

\* What a child process can have written to one of its streams.
StreamTexts ==
    { <<>>, <<" ">>, <<"o", "k">>, <<"w", "a", "r", "n">>, <<"o", "\n", "k">> }

FnInputs ==
    [kind : {"name"}, in : Strings(NameAlphabet, MaxNameLen), out : {<<>>}]
    \cup
    [kind : {"tokens"},
     in : { JsArray(<<t>>) : t \in Strings(TokenAlphabet, MaxTokenLen) \cup ExampleTokens }
          \cup { JsArray(<<t, u>>) : t \in PairTokens, u \in PairTokens }
          \cup { JsArray(<<>>) },
     out : {<<>>}]
    \cup
    [kind : {"depOptions", "globalOptions"},
     in : { JsString(str) : str \in Strings(OptAlphabet, MaxOptLen) } \cup { Undefined },
     out : {<<>>}]
    \cup
    [kind : {"outcome"},
     in : [error : {Null, ExecFailure}, stdout : StreamTexts, stderr : StreamTexts],
     out : {<<>>}]

InitFn ==
    /\ fn \in FnInputs
    /\ installOptions = [dependencies |-> <<>>, globalOptions |-> Undefined,
                         verbose |-> "undefined"]
    /\ pc = "idle"
    /\ idx = 1
    /\ logs = <<>>
    /\ results = <<>>
    /\ console = <<>>
    /\ execCalls = <<>>
    /\ child = <<>>
    /\ settled = <<>>
    /\ report = <<>>
    /\ exits = <<>>
    /\ suspended = <<>>
    /\ self = 1

ApplyIsValidDependencyName ==
    /\ fn.kind = "name"
    /\ fn.out = <<>>
    /\ fn' = [fn EXCEPT !.out = <<isValidDependencyName(fn.in)>>]
    /\ UNCHANGED runVars

ApplyValidateOptionTokens ==
    /\ fn.kind = "tokens"
    /\ fn.out = <<>>
    /\ fn' = [fn EXCEPT !.out = <<validateOptionTokens(fn.in)>>]
    /\ UNCHANGED runVars

ApplyParseAndValidateOptions ==
    /\ fn.kind = "depOptions"
    /\ fn.out = <<>>
    /\ fn' = [fn EXCEPT !.out = <<parseAndValidateOptions(fn.in)>>]
    /\ UNCHANGED runVars

ApplyValidGlobalOptions ==
    /\ fn.kind = "globalOptions"
    /\ fn.out = <<>>
    /\ fn' = [fn EXCEPT !.out = <<validGlobalOptions([globalOptions |-> fn.in])>>]
    /\ UNCHANGED runVars

\* The callback of exec up to its resolve, on one outcome.
ApplyExecCallback ==
    /\ fn.kind = "outcome"
    /\ fn.out = <<>>
    /\ fn' = [fn EXCEPT !.out = << [success |-> successOf(fn.in),
                                    message |-> messageOf(fn.in)] >>]
    /\ UNCHANGED runVars

NextFn ==
    \/ ApplyIsValidDependencyName
    \/ ApplyValidateOptionTokens
    \/ ApplyParseAndValidateOptions
    \/ ApplyValidGlobalOptions
    \/ ApplyExecCallback

SpecFn == InitFn /\ [][NextFn]_vars

\* Runs and validator applications together.
SpecAll == (Init \/ InitFn) /\ [][Next \/ NextFn]_vars

(***************************************************************************)
(* The vocabulary of the properties, stated on characters and positions    *)
(* and not through the operators that model the source.                    *)
(***************************************************************************)
Deps == installOptions.dependencies

\* Dependency k has been through validation: its iteration has run up to a
\* continue or up to the call of exec.
Started(k) == k < idx \/ (k = idx /\ pc \in {"awaiting", "resolved"})

CallsFor(k) == { j \in 1..Len(execCalls) : execCalls[j].forDep = k }

InLog(line) == \E j \in 1..Len(logs) : logs[j] = line

ClaimNameChars == Lower \cup Upper \cup Digit \cup {"@", ".", "_", "/", "-"}

ClaimHasBadNameChar(name) == \E k \in 1..Len(name) : name[k] \notin ClaimNameChars

ClaimNameAccepted(name) == name # <<>> /\ ~ClaimHasBadNameChar(name)

ClaimMetaChars ==
    {";", "&", "|", "$", "backtick", "<", ">", "\\", "*", "?",
     "(", ")", "{", "}", "[", "]", "~"}

ClaimShortFlag(t) ==
    /\ Len(t) >= 2
    /\ t[1] = "-"
    /\ \A k \in 2..Len(t) : t[k] \in Lower \cup Upper

ClaimLongFlag(t) ==
    /\ Len(t) >= 3
    /\ t[1] = "-" /\ t[2] = "-"
    /\ t[3] # "-" /\ t[Len(t)] # "-"
    /\ \A k \in 3..Len(t) : t[k] \in Lower \cup {"-"}
    /\ \A k \in 3..(Len(t) - 1) : ~(t[k] = "-" /\ t[k + 1] = "-")

ClaimTokenAccepted(t) ==
    /\ ClaimShortFlag(t) \/ ClaimLongFlag(t)
    /\ \A k \in 1..Len(t) : t[k] \notin ClaimMetaChars

\* The whitespace-separated tokens of a string: its maximal runs of
\* non-whitespace characters, from left to right.
RECURSIVE ClaimTokensFrom(_, _)
ClaimTokensFrom(str, from) ==
    LET starts == { k \in from..Len(str) : str[k] \notin Whitespace }
    IN IF starts = {} THEN <<>>
       ELSE LET st == CHOOSE k \in starts : \A m \in starts : k <= m
                en == CHOOSE k \in st..Len(str) :
                          /\ \A m \in st..k : str[m] \notin Whitespace
                          /\ k = Len(str) \/ str[k + 1] \in Whitespace
            IN <<SubSeq(str, st, en)>> \o ClaimTokensFrom(str, en + 1)

ClaimTokensOf(str) == ClaimTokensFrom(str, 1)

\* The tokens a dependency's own options stand for: none when absent, the
\* elements of an array, the whitespace-separated tokens of a string.
ClaimOwnTokens(o) ==
    CASE o.t = "array" -> o.v
      [] o.t = "string" -> ClaimTokensOf(o.v)
      [] OTHER -> <<>>

ClaimAllAccepted(tokens) == \A k \in 1..Len(tokens) : ClaimTokenAccepted(tokens[k])

\* globalOptions as the declared type has it: absent (undefined, null, or
\* empty) or an array of tokens.
ClaimGlobalAbsent(g) == g.t \in {"undefined", "null"} \/ (g.t = "string" /\ g.v = <<>>)

ClaimGlobalTokens(g) == IF g.t = "array" THEN g.v ELSE <<>>

ClaimGlobalValid(g) == ClaimGlobalAbsent(g) \/ (g.t = "array" /\ ClaimAllAccepted(g.v))

ClaimGlobalInvalid(g) == g.t = "array" /\ ~ClaimAllAccepted(g.v)

ClaimOverride(dep) == dep.override = "true"

\* 'npm install', one space, the name, then every token after one space.
RECURSIVE ClaimSpaced(_)
ClaimSpaced(tokens) ==
    IF tokens = <<>> THEN <<>> ELSE <<" ">> \o Head(tokens) \o ClaimSpaced(Tail(tokens))

ClaimCommand(name, tokens) == NPM_INSTALL \o <<" ">> \o name \o ClaimSpaced(tokens)

ClaimInvalidNameMessage(name) == INVALID_NAME \o name

ClaimInvalidOptionsMessage(name) == INVALID_OPTIONS \o name

IsPrefix(p, q) == Len(p) <= Len(q) /\ SubSeq(q, 1, Len(p)) = p

Contains(str, sub) ==
    \E k \in 0..(Len(str) - Len(sub)) : SubSeq(str, k + 1, k + Len(sub)) = sub

(***************************************************************************)
(* C1.  The report has one entry of details per dependency, in declaration *)
(* order and with the dependency's name, also for dependencies rejected by *)
(* validation; during the run the results array is only appended to, and   *)
(* after k dependencies have been processed it holds the results of the    *)
(* first k dependencies in order.                                          *)
(***************************************************************************)
C1_ResultsMatchProcessed ==
    /\ Len(results) = idx - 1
    /\ Len(results) <= Len(Deps)
    /\ \A k \in 1..Len(results) : results[k].name = Deps[k].name
    /\ report # <<>> =>
         /\ Len(report[1].details) = Len(Deps)
         /\ \A k \in 1..Len(Deps) : report[1].details[k].name = Deps[k].name

C1_AppendOnly == IsPrefix(results, results') /\ Len(results') <= Len(results) + 1

C1_DetailsFollowDependencies == [](C1_ResultsMatchProcessed) /\ [][C1_AppendOnly]_vars

\* A report for two dependencies, the first rejected by name validation
\* and the second run as a process.
C1_Witness ==
    /\ report # <<>>
    /\ Len(Deps) = 2
    /\ report[1].details[1].message = ClaimInvalidNameMessage(Deps[1].name)
    /\ CallsFor(2) # {}

(***************************************************************************)
(* C2.  Every command string handed to exec is 'npm install', one space,   *)
(* the dependency's name, then zero or more option tokens each after       *)
(* exactly one space; it holds no shell metacharacter, no quote character  *)
(* and no whitespace but those single separating spaces.                   *)
(***************************************************************************)
ClaimQuotes == {"'", "\"", "backtick"}

C2_CommandShape(c, name) ==
    LET head == NPM_INSTALL \o <<" ">> \o name
        rest == SubSeq(c, Len(head) + 1, Len(c))
    IN /\ IsPrefix(head, c)
       /\ c = ClaimCommand(name, ClaimTokensOf(rest))
       /\ ClaimAllAccepted(ClaimTokensOf(rest))
       /\ \A k \in 1..Len(c) :
            /\ c[k] \notin ClaimMetaChars \cup ClaimQuotes
            /\ c[k] \in Whitespace =>
                 /\ c[k] = " "
                 /\ 1 < k /\ k < Len(c)
                 /\ c[k - 1] \notin Whitespace /\ c[k + 1] \notin Whitespace

C2_CommandsAreSafe ==
    \A j \in 1..Len(execCalls) :
        C2_CommandShape(execCalls[j].command, Deps[execCalls[j].forDep].name)

\* A command with two option tokens that came from a string holding a tab
\* and surrounding spaces.
C2_Witness ==
    \E j \in 1..Len(execCalls) :
        LET dep == Deps[execCalls[j].forDep]
        IN /\ dep.options.t = "string"
           /\ \E k \in 1..Len(dep.options.v) : dep.options.v[k] = "\t"
           /\ execCalls[j].command =
                ClaimCommand(dep.name, << <<"-", "-", "x">>, <<"-", "D">> >>)

(***************************************************************************)
(* C3.  A dependency whose name holds a character outside [A-Za-z0-9@._/-] *)
(* gets, whatever its options, its override flag and the global options,   *)
(* the result {name, success: false, message: 'Invalid dependency name:    *)
(* <name>'}; the message is appended to the log, no process is spawned for *)
(* it, and the loop goes on with the next dependency.                      *)
(***************************************************************************)
C3_RejectedByName ==
    \A k \in 1..Len(Deps) :
        ClaimHasBadNameChar(Deps[k].name) =>
            /\ CallsFor(k) = {}
            /\ ~(k = idx /\ pc \in {"awaiting", "resolved"})
            /\ k <= Len(results) =>
                 /\ results[k] = [name |-> Deps[k].name, success |-> FALSE,
                                  message |-> ClaimInvalidNameMessage(Deps[k].name)]
                 /\ InLog(ClaimInvalidNameMessage(Deps[k].name))

C3_RejectionStep ==
    (InLoop /\ ClaimHasBadNameChar(CurrentDep.name)) =>
        /\ logs' = Append(logs, ClaimInvalidNameMessage(CurrentDep.name))
        /\ results' = Append(results,
                             [name |-> CurrentDep.name, success |-> FALSE,
                              message |-> ClaimInvalidNameMessage(CurrentDep.name)])
        /\ execCalls' = execCalls
        /\ pc' = "loop"
        /\ idx' = idx + 1

C3_InvalidNameIsRejected == [](C3_RejectedByName) /\ [][C3_RejectionStep]_vars

\* A dependency with a bad name, override true, rejected options of its own
\* and invalid global options has been rejected for its name, and the next
\* dependency is running.
C3_Witness ==
    /\ pc = "awaiting"
    /\ idx = 2
    /\ ClaimHasBadNameChar(Deps[1].name)
    /\ ClaimOverride(Deps[1])
    /\ ~ClaimAllAccepted(ClaimOwnTokens(Deps[1].options))
    /\ ClaimGlobalInvalid(installOptions.globalOptions)
    /\ results[1].message = ClaimInvalidNameMessage(Deps[1].name)

(***************************************************************************)
(* C4.  The name validator accepts a name exactly when every character of  *)
(* it is one of A-Z, a-z, 0-9, @, ., _, /, -, whatever the length, with no *)
(* further check: '../evil' and '@scope/../evil' are accepted and a        *)
(* process is spawned for them with the name unchanged.                    *)
(***************************************************************************)
ClaimTraversalNames ==
    { <<".", ".", "/", "e", "v", "i", "l">>,
      <<"@", "s", "c", "o", "p", "e", "/", ".", ".", "/", "e", "v", "i", "l">> }

\* A dependency with a traversal name and no options of any kind is run as
\* 'npm install <name>', once.
C4_TraversalNamesAreSpawned ==
    \A k \in 1..Len(Deps) :
        ( /\ Deps[k].name \in ClaimTraversalNames
          /\ Deps[k].options.t = "undefined"
          /\ ClaimGlobalAbsent(installOptions.globalOptions)
          /\ Started(k) ) =>
            /\ Cardinality(CallsFor(k)) = 1
            /\ \A j \in CallsFor(k) :
                 execCalls[j].command = NPM_INSTALL \o <<" ">> \o Deps[k].name

\* The original statement: accepted exactly when no character is outside the class.
C4_Original ==
    /\ (fn.kind = "name" /\ fn.out # <<>>) =>
         (fn.out[1] <=> ~ClaimHasBadNameChar(fn.in))
    /\ C4_TraversalNamesAreSpawned

\* As amended: accepted exactly when the name is not empty and no character
\* is outside the class.
C4_NameValidator ==
    /\ (fn.kind = "name" /\ fn.out # <<>>) =>
         (fn.out[1] <=> ClaimNameAccepted(fn.in))
    /\ \A k \in 1..Len(results) :
         (results[k].message = ClaimInvalidNameMessage(Deps[k].name))
             <=> ~ClaimNameAccepted(Deps[k].name)
    /\ C4_TraversalNamesAreSpawned

\* The report of a run of the single dependency '@scope/../evil'.
C4_Witness ==
    /\ report # <<>>
    /\ Len(Deps) = 1
    /\ Deps[1].name = <<"@", "s", "c", "o", "p", "e", "/", ".", ".", "/", "e", "v", "i", "l">>
    /\ Len(execCalls) = 1
    /\ execCalls[1].command = NPM_INSTALL \o <<" ">> \o Deps[1].name
    /\ report[1].details[1].name = Deps[1].name
    /\ report[1].details[1].success

(***************************************************************************)
(* C5.  The token validator accepts a token exactly when it is a short     *)
(* flag ('-' and one or more letters of either case) or a long flag ('--'  *)
(* and one or more groups of lowercase letters separated by single         *)
(* hyphens) and holds no shell metacharacter; a token list is valid        *)
(* exactly when every token of it is accepted; '--Save', '--', '-',        *)
(* '--save--dev', '--save-' and the empty token are rejected.              *)
(***************************************************************************)
ClaimRejectedExamples ==
    { <<"-", "-", "S", "a", "v", "e">>,
      <<"-", "-">>,
      <<"-">>,
      <<"-", "-", "s", "a", "v", "e", "-", "-", "d", "e", "v">>,
      <<"-", "-", "s", "a", "v", "e", "-">>,
      <<>> }

C5_TokenValidator ==
    (fn.kind = "tokens" /\ fn.out # <<>>) =>
        /\ (fn.out[1].t # "null") <=> ClaimAllAccepted(fn.in.v)
        /\ fn.out[1].t # "null" => fn.out[1] = fn.in
        /\ (\E t \in ClaimRejectedExamples : fn.in.v = <<t>>) => fn.out[1].t = "null"

\* The list ['--Save'] has been rejected.
C5_Witness ==
    /\ fn.kind = "tokens"
    /\ fn.in.v = << <<"-", "-", "S", "a", "v", "e">> >>
    /\ fn.out = <<Null>>

(***************************************************************************)
(* C6.  An option input given as one space-delimited string gets the same  *)
(* verdict and the same ordered tokens as the array of its                 *)
(* whitespace-separated tokens, whether it is the global options or a      *)
(* dependency's own options.                                               *)
(***************************************************************************)
C6_ViaArray ==
    IF fn.kind = "depOptions"
    THEN parseAndValidateOptions(JsArray(ClaimTokensOf(fn.in.v)))
    ELSE validGlobalOptions([globalOptions |-> JsArray(ClaimTokensOf(fn.in.v))])

C6_StringEqualsArray ==
    (fn.kind \in {"depOptions", "globalOptions"} /\ fn.in.t = "string" /\ fn.out # <<>>) =>
        /\ (fn.out[1].t = "null") <=> (C6_ViaArray.t = "null")
        /\ fn.out[1].t # "null" => Iterate(fn.out[1]) = Iterate(C6_ViaArray)

(***************************************************************************)
(* C7.  A dependency with override true, a valid name and valid options of *)
(* its own is run with exactly its own tokens, none of the global ones,    *)
(* also when globalOptions is invalid; its result is then the outcome of   *)
(* the process.                                                            *)
(***************************************************************************)
\* The result the outcome of a process stands for.
ClaimProcessResult(name, outcome) ==
    IF outcome.error.t = "error"
    THEN [name |-> name, success |-> FALSE, message |-> outcome.error.v]
    ELSE [name |-> name, success |-> TRUE,
          message |-> IF outcome.stdout # <<>> THEN outcome.stdout ELSE outcome.stderr]

C7_OverrideUsesOwnOptions ==
    \A k \in 1..Len(Deps) :
        ( /\ ClaimOverride(Deps[k])
          /\ ClaimNameAccepted(Deps[k].name)
          /\ ClaimAllAccepted(ClaimOwnTokens(Deps[k].options)) ) =>
            /\ Started(k) =>
                 /\ Cardinality(CallsFor(k)) = 1
                 /\ \A j \in CallsFor(k) :
                      execCalls[j].command =
                          ClaimCommand(Deps[k].name, ClaimOwnTokens(Deps[k].options))
            /\ k <= Len(results) =>
                 \E outcome \in ExecOutcomes :
                     results[k] = ClaimProcessResult(Deps[k].name, outcome)

\* An overriding dependency with a token of its own has succeeded under
\* invalid global options.
C7_Witness ==
    \E k \in 1..Len(results) :
        /\ ClaimGlobalInvalid(installOptions.globalOptions)
        /\ ClaimOverride(Deps[k])
        /\ ClaimOwnTokens(Deps[k].options) # <<>>
        /\ results[k].success

(***************************************************************************)
(* C8.  When globalOptions is invalid, every dependency whose override is  *)
(* false or omitted fails with a message containing 'Invalid options', no  *)
(* process is spawned for any of them, and the dependencies with override  *)
(* true are unaffected.                                                    *)
(***************************************************************************)
ClaimInvalidOptionsText ==
    <<"I", "n", "v", "a", "l", "i", "d", " ", "o", "p", "t", "i", "o", "n", "s">>

C8_NotSpawned(k) == CallsFor(k) = {} /\ ~(k = idx /\ pc \in {"awaiting", "resolved"})

C8_OverridingUnaffected(k) ==
    ( /\ ClaimNameAccepted(Deps[k].name)
      /\ ClaimAllAccepted(ClaimOwnTokens(Deps[k].options))
      /\ Started(k) ) => CallsFor(k) # {}

\* The original statement.
C8_Original ==
    ClaimGlobalInvalid(installOptions.globalOptions) =>
        \A k \in 1..Len(Deps) :
            IF ClaimOverride(Deps[k])
            THEN C8_OverridingUnaffected(k)
            ELSE /\ C8_NotSpawned(k)
                 /\ k <= Len(results) =>
                      /\ ~results[k].success
                      /\ Contains(results[k].message, ClaimInvalidOptionsText)

\* As amended: the message is 'Invalid options for dependency: <name>' for
\* a valid name, and 'Invalid dependency name: <name>' for an invalid one.
C8_InvalidGlobalBlocksNonOverriding ==
    ClaimGlobalInvalid(installOptions.globalOptions) =>
        \A k \in 1..Len(Deps) :
            IF ClaimOverride(Deps[k])
            THEN C8_OverridingUnaffected(k)
            ELSE /\ C8_NotSpawned(k)
                 /\ k <= Len(results) =>
                      /\ ~results[k].success
                      /\ results[k].message =
                           IF ClaimNameAccepted(Deps[k].name)
                           THEN ClaimInvalidOptionsMessage(Deps[k].name)
                           ELSE ClaimInvalidNameMessage(Deps[k].name)
                      /\ ClaimNameAccepted(Deps[k].name) =>
                           Contains(results[k].message, ClaimInvalidOptionsText)

\* Under invalid global options a dependency without override has failed
\* for its options and a later overriding one is running.
C8_Witness ==
    /\ ClaimGlobalInvalid(installOptions.globalOptions)
    /\ pc = "awaiting"
    /\ idx = 2
    /\ ~ClaimOverride(Deps[1])
    /\ results[1].message = ClaimInvalidOptionsMessage(Deps[1].name)
    /\ ClaimOverride(Deps[2])

(***************************************************************************)
(* C9.  A dependency with a valid name, override false or omitted, and     *)
(* valid global and own options is run as 'npm install <name>', then the   *)
(* global tokens, then its own tokens, one space before each, in the given *)
(* order, none dropped, deduplicated or reordered; with no options at all  *)
(* the command is 'npm install <name>' with no trailing whitespace.        *)
(***************************************************************************)
C9_CommandIsGlobalThenOwn ==
    \A k \in 1..Len(Deps) :
        ( /\ ~ClaimOverride(Deps[k])
          /\ ClaimNameAccepted(Deps[k].name)
          /\ ClaimGlobalValid(installOptions.globalOptions)
          /\ ClaimAllAccepted(ClaimOwnTokens(Deps[k].options))
          /\ Started(k) ) =>
            /\ Cardinality(CallsFor(k)) = 1
            /\ \A j \in CallsFor(k) :
                 LET c == execCalls[j].command
                     tokens == ClaimGlobalTokens(installOptions.globalOptions)
                                   \o ClaimOwnTokens(Deps[k].options)
                 IN /\ c = ClaimCommand(Deps[k].name, tokens)
                    /\ tokens = <<>> =>
                         /\ c = NPM_INSTALL \o <<" ">> \o Deps[k].name
                         /\ c[Len(c)] \notin Whitespace

\* A command with two global tokens followed by two tokens of the dependency.
C9_Witness ==
    \E j \in 1..Len(execCalls) :
        LET dep == Deps[execCalls[j].forDep]
        IN /\ ~ClaimOverride(dep)
           /\ Len(ClaimGlobalTokens(installOptions.globalOptions)) = 2
           /\ Len(ClaimOwnTokens(dep.options)) = 2
           /\ execCalls[j].command =
                ClaimCommand(dep.name,
                             ClaimGlobalTokens(installOptions.globalOptions)
                                 \o ClaimOwnTokens(dep.options))

(***************************************************************************)
(* C10.  A dependency with a valid name and at least one rejected token    *)
(* among its own options fails, whatever its override flag and the global  *)
(* options, with 'Invalid options for dependency: <name>'; the message is  *)
(* appended to the log and no process is spawned for it.                   *)
(***************************************************************************)
C10_InvalidOwnOptionsAreRejected ==
    \A k \in 1..Len(Deps) :
        ( /\ ClaimNameAccepted(Deps[k].name)
          /\ ~ClaimAllAccepted(ClaimOwnTokens(Deps[k].options)) ) =>
            /\ CallsFor(k) = {}
            /\ ~(k = idx /\ pc \in {"awaiting", "resolved"})
            /\ k <= Len(results) =>
                 /\ results[k] = [name |-> Deps[k].name, success |-> FALSE,
                                  message |-> ClaimInvalidOptionsMessage(Deps[k].name)]
                 /\ InLog(ClaimInvalidOptionsMessage(Deps[k].name))

\* An overriding dependency whose options are the string '-D; ls' has been
\* rejected although the global options are valid.
C10_Witness ==
    /\ report # <<>>
    /\ Len(Deps) = 1
    /\ ClaimOverride(Deps[1])
    /\ Deps[1].options = JsString(<<"-", "D", ";", " ", "l", "s">>)
    /\ ClaimGlobalValid(installOptions.globalOptions)
    /\ report[1].details[1].message = ClaimInvalidOptionsMessage(Deps[1].name)
    /\ execCalls = <<>>

(***************************************************************************)
(* C11.  A failure of a dependency, by name validation, by option          *)
(* validation or by an execution error of its process, does not stop the   *)
(* loop: every later dependency is validated, spawned when valid, and gets *)
(* its own result, and the run returns only after the last dependency.  A  *)
(* failing dependency followed by a valid one whose process reports no     *)
(* error gives details [failed, succeeded] and aggregate success false.    *)
(***************************************************************************)
\* What validation has to say about a declaration, on its characters and
\* tokens.  A non-empty string given as globalOptions is neither case.
ClaimValid(dep) ==
    /\ ClaimNameAccepted(dep.name)
    /\ ClaimAllAccepted(ClaimOwnTokens(dep.options))
    /\ ClaimOverride(dep) \/ ClaimGlobalValid(installOptions.globalOptions)

ClaimInvalid(dep) ==
    \/ ~ClaimNameAccepted(dep.name)
    \/ ~ClaimAllAccepted(ClaimOwnTokens(dep.options))
    \/ ~ClaimOverride(dep) /\ ClaimGlobalInvalid(installOptions.globalOptions)

\* Some dependency before k has failed.
ClaimFailedBefore(k) == \E i \in 1..(k - 1) : i <= Len(results) /\ ~results[i].success

C11_LaterStillHandled ==
    \A k \in 1..Len(Deps) :
        (ClaimFailedBefore(k) /\ Started(k)) =>
            /\ ClaimValid(Deps[k]) => Cardinality(CallsFor(k)) = 1
            /\ ClaimInvalid(Deps[k]) => CallsFor(k) = {}
            /\ k < idx => /\ k <= Len(results)
                          /\ results[k].name = Deps[k].name
                          /\ \A j \in CallsFor(k) :
                               results[k].success = (exits[j].error = Null)

C11_ReportAfterFailure ==
    report # <<>> =>
        /\ idx = Len(Deps) + 1
        /\ Len(report[1].details) = Len(Deps)
        /\ (\E i \in 1..Len(Deps) : ~report[1].details[i].success) => ~report[1].success
        /\ \A k \in 1..Len(Deps) :
             (ClaimFailedBefore(k) /\ ClaimValid(Deps[k])
              /\ \A j \in CallsFor(k) : exits[j].error = Null) =>
                 report[1].details[k].success

\* The run leaves the loop only from behind the last dependency.
C11_LeavesLoopAtEnd ==
    pc' = "returned" => (idx > Len(Deps) /\ Len(results) = Len(Deps))

C11_FailureNeverStopsLoop ==
    /\ [](C11_LaterStillHandled /\ C11_ReportAfterFailure)
    /\ [][C11_LeavesLoopAtEnd]_vars
    /\ <>(report # <<>>)

\* The report of the test: the first process fails, the second succeeds.
C11_Witness ==
    /\ report # <<>>
    /\ Len(Deps) = 2
    /\ Len(exits) = 2
    /\ exits[1].error # Null
    /\ ~report[1].details[1].success
    /\ report[1].details[2].success
    /\ ~report[1].success

(***************************************************************************)
(* C12.  The success flag of the report is true exactly when every entry   *)
(* of details has success true: it is false as soon as one dependency has  *)
(* failed, for whatever reason, and true for an empty dependency list.     *)
(***************************************************************************)
C12_AggregateIsConjunction ==
    report # <<>> =>
        LET failed == { k \in 1..Len(report[1].details) : ~report[1].details[k].success }
        IN /\ report[1].success <=> failed = {}
           /\ failed # {} => ~report[1].success
           /\ Len(Deps) = 0 => (report[1].success /\ report[1].details = <<>>)

\* A report whose first entry succeeded and whose second entry failed.
C12_Witness ==
    /\ report # <<>>
    /\ Len(report[1].details) = 2
    /\ report[1].details[1].success
    /\ ~report[1].details[2].success
    /\ ~report[1].success

\* The report of a run without dependencies.
C12_WitnessEmpty ==
    /\ report # <<>>
    /\ Deps = <<>>
    /\ report[1].success

(***************************************************************************)
(* C13.  For a completed child process, success is false and message is    *)
(* the description of the error exactly when the process reported an       *)
(* execution error, also with a non-empty standard output; otherwise       *)
(* success is true and message is the standard output when it is not empty *)
(* and the standard error text when the standard output is empty, so that  *)
(* standard error text without an error never fails the dependency.        *)
(***************************************************************************)
ClaimClassified(o, success, message) ==
    /\ ~success <=> o.error # Null
    /\ o.error # Null => message = o.error.v
    /\ (o.error = Null /\ o.stdout # <<>>) => message = o.stdout
    /\ (o.error = Null /\ o.stdout = <<>>) => message = o.stderr
    /\ (o.error = Null /\ o.stderr # <<>>) => success

C13_ProcessClassified ==
    /\ (fn.kind = "outcome" /\ fn.out # <<>>) =>
         ClaimClassified(fn.in, fn.out[1].success, fn.out[1].message)
    /\ Len(exits) <= Len(execCalls)
    /\ \A j \in 1..Len(exits) :
         LET k == execCalls[j].forDep
         IN /\ (k = idx /\ pc = "resolved") =>
                 ClaimClassified(exits[j], settled[1].success, settled[1].message)
            /\ k < idx =>
                 /\ ClaimClassified(exits[j], results[k].success, results[k].message)
                 /\ report # <<>> =>
                      ClaimClassified(exits[j], report[1].details[k].success,
                                      report[1].details[k].message)

\* A process that wrote nothing to its standard output and a warning to its
\* standard error, without an error: the dependency succeeded with the
\* warning as its message.
C13_Witness ==
    \E j \in 1..Len(exits) :
        /\ exits[j].error = Null
        /\ exits[j].stdout = <<>>
        /\ exits[j].stderr # <<>>
        /\ execCalls[j].forDep < idx
        /\ results[execCalls[j].forDep].success
        /\ results[execCalls[j].forDep].message = exits[j].stderr

\* A process that reported an error after writing to its standard output.
C13_WitnessError ==
    \E j \in 1..Len(exits) :
        /\ exits[j].error # Null
        /\ exits[j].stdout # <<>>
        /\ execCalls[j].forDep < idx
        /\ ~results[execCalls[j].forDep].success
        /\ results[execCalls[j].forDep].message = exits[j].error.v

(***************************************************************************)
(* C14.  For every spawned process, whatever its outcome, the log receives *)
(* in one piece and in this order the lines 'command: <command>',          *)
(* 'stdout: <raw stdout>', 'stderr: <raw stderr>', 'error: <description of *)
(* the error, or none>' and 'success: <flag>, message: <message>', with no *)
(* line of another dependency between them.                                *)
(***************************************************************************)
\* The five lines of the process whose callback received outcome o.
ClaimProcessLines(command, o, success, message) ==
    << COMMAND_ \o command,
       STDOUT_ \o o.stdout,
       STDERR_ \o o.stderr,
       ERROR_ \o (IF o.error = Null THEN <<"n", "o", "n", "e">> ELSE o.error.v),
       SUCCESS_ \o (IF success THEN <<"t", "r", "u", "e">> ELSE <<"f", "a", "l", "s", "e">>)
           \o MESSAGE_ \o message >>

\* The step of a completing process appends its five lines, and nothing
\* else, to the log; no other step of a run with a process in flight
\* touches the log.
C14_CallbackStep ==
    /\ Len(exits') > Len(exits) =>
         /\ Len(exits') = Len(exits) + 1
         /\ Len(execCalls) = Len(exits')
         /\ logs' = logs \o ClaimProcessLines(execCalls[Len(exits')].command,
                                              exits'[Len(exits')],
                                              settled'[1].success, settled'[1].message)
    /\ (pc = "awaiting" /\ Len(exits') = Len(exits)) => logs' = logs

\* Every completed process has its five lines in the log, side by side.
C14_LinesInLog ==
    \A j \in 1..Len(exits) :
        \E at \in 0..(Len(logs) - 5) :
            /\ SubSeq(logs, at + 1, at + 5) \in
                 { ClaimProcessLines(execCalls[j].command, exits[j], s, m) :
                     s \in BOOLEAN, m \in {exits[j].stdout, exits[j].stderr,
                                          IF exits[j].error = Null THEN <<>> ELSE exits[j].error.v} }
            /\ at >= 5 * (j - 1)

C14_FiveLinesPerProcess == [](C14_LinesInLog) /\ [][C14_CallbackStep]_vars

\* The log of a run of two processes, the first of which failed: two
\* blocks of five lines.
C14_Witness ==
    /\ Len(exits) = 2
    /\ exits[1].error # Null
    /\ exits[2].error = Null
    /\ Len(logs) = 10
    /\ logs[4] = <<"e", "r", "r", "o", "r", ":", " ", "f", "a", "i", "l">>
    /\ logs[9] = <<"e", "r", "r", "o", "r", ":", " ", "n", "o", "n", "e">>
    /\ logs[10] = <<"s", "u", "c", "c", "e", "s", "s", ":", " ", "t", "r", "u", "e", ",", " ",
                    "m", "e", "s", "s", "a", "g", "e", ":", " ", "o", "k">>

(***************************************************************************)
(* C15.  The returned log holds exactly one line beginning with 'command:' *)
(* for every spawned process, these lines come in the declaration order of *)
(* their dependencies, and a dependency rejected by validation contributes *)
(* no line beginning with 'command:'.  A line is an entry of logsArray.    *)
(***************************************************************************)
ClaimCommandPrefix == <<"c", "o", "m", "m", "a", "n", "d", ":">>

ClaimCommandLines(lines) == SelectSeq(lines, LAMBDA l : IsPrefix(ClaimCommandPrefix, l))

C15_ReturnedCommandLines ==
    /\ \A j \in 1..(Len(execCalls) - 1) : execCalls[j].forDep < execCalls[j + 1].forDep
    /\ Len(ClaimCommandLines(logs)) = Len(exits)
    /\ report # <<>> =>
         /\ Len(exits) = Len(execCalls)
         /\ ClaimCommandLines(report[1].logsArray) =
              [j \in 1..Len(execCalls) |->
                 ClaimCommandPrefix \o <<" ">> \o execCalls[j].command]
         /\ Len(ClaimCommandLines(report[1].logsArray)) =
              Cardinality({ k \in 1..Len(Deps) : CallsFor(k) # {} })

\* The step that rejects a dependency adds no line beginning with 'command:'.
C15_RejectionAddsNone ==
    (pc = "loop" /\ pc' = "loop" /\ idx' = idx + 1) =>
        /\ execCalls' = execCalls
        /\ ClaimCommandLines(logs') = ClaimCommandLines(logs)
        /\ Len(logs') = Len(logs) + 1

C15_OneCommandLinePerProcess ==
    [](C15_ReturnedCommandLines) /\ [][C15_RejectionAddsNone]_vars

\* The report of a run that rejected its first dependency and spawned a
\* process for its second: one line beginning with 'command:' among six.
C15_Witness ==
    /\ report # <<>>
    /\ Len(Deps) = 2
    /\ CallsFor(1) = {}
    /\ CallsFor(2) # {}
    /\ Len(report[1].logsArray) = 6
    /\ Len(ClaimCommandLines(report[1].logsArray)) = 1
    /\ IsPrefix(ClaimCommandPrefix, report[1].logsArray[2])

(***************************************************************************)
(* C16.  A run with verbose true or omitted over at least one dependency   *)
(* has emitted at least one line to the console when it returns, and a run *)
(* with verbose explicitly false emits none at any time.                   *)
(***************************************************************************)
ClaimVerboseOn == installOptions.verbose \in {"true", "undefined"}

C16_SilentWhenFalse == installOptions.verbose = "false" => console = <<>>

C16_VerboseEmits ==
    /\ (report # <<>> /\ ClaimVerboseOn /\ Len(Deps) >= 1) => Len(console) >= 1
    /\ C16_SilentWhenFalse

\* The statement for every configuration, the one without dependencies
\* included.
C16_Original ==
    /\ (report # <<>> /\ ClaimVerboseOn) => Len(console) >= 1
    /\ C16_SilentWhenFalse

\* A returned run with verbose omitted whose only dependency was rejected:
\* one line on the console.
C16_Witness ==
    /\ report # <<>>
    /\ installOptions.verbose = "undefined"
    /\ Len(Deps) = 1
    /\ execCalls = <<>>
    /\ Len(console) = 1
    /\ console = logs

\* A returned run with verbose false that spawned a process: five lines in
\* the log, none on the console.
C16_WitnessSilent ==
    /\ report # <<>>
    /\ installOptions.verbose = "false"
    /\ Len(logs) >= 5
    /\ console = <<>>

(***************************************************************************)
(* C17.  installDependencies never throws and its promise never rejects:   *)
(* no validation of a name or of options throws, for any dependency of the *)
(* configuration, and validation errors and execution errors are failed    *)
(* entries of details in a report that is returned normally.               *)
(***************************************************************************)
C17_NoValidationThrows ==
    \A k \in 1..Len(Deps) : ~Throws(installOptions, Deps[k])

\* The run is at a statement of the function, and it has returned exactly
\* when its promise has resolved with the report.
C17_AtAStatement ==
    /\ pc \in {"loop", "awaiting", "resolved", "returned"}
    /\ pc = "returned" <=> report # <<>>
C17_ErrorsAreReported ==
    report # <<>> =>
        /\ pc = "returned"
        /\ Len(report[1].details) = Len(Deps)
        /\ \A k \in 1..Len(Deps) :
             /\ ClaimInvalid(Deps[k]) =>
                  /\ ~report[1].details[k].success
                  /\ report[1].details[k].message
                       \in {ClaimInvalidNameMessage(Deps[k].name),
                            ClaimInvalidOptionsMessage(Deps[k].name)}
             /\ \A j \in CallsFor(k) :
                  exits[j].error # Null =>
                      /\ ~report[1].details[k].success
                      /\ report[1].details[k].message = exits[j].error.v

C17_NeverThrows ==
    /\ C17_NoValidationThrows
    /\ C17_AtAStatement
    /\ C17_ErrorsAreReported

\* A returned report for globalOptions null and a dependency whose process
\* reported an error.
C17_Witness ==
    /\ report # <<>>
    /\ installOptions.globalOptions = Null
    /\ Len(exits) = 1
    /\ exits[1].error # Null
    /\ ~report[1].details[1].success
    /\ ~report[1].success

(***************************************************************************)
(* C18.  At most one child process of a run is in flight at any time: the  *)
(* process of a dependency is spawned only after the process of every      *)
(* earlier dependency has completed, its outcome has been classified, its  *)
(* lines have been appended to the log and its result has been appended to *)
(* the results.                                                            *)
(***************************************************************************)
\* The processes spawned and not yet completed.
ClaimInFlight == Len(execCalls) - Len(exits)

C18_AtMostOneInFlight ==
    /\ Len(exits) <= Len(execCalls)
    /\ ClaimInFlight <= 1
    /\ ClaimInFlight = 1 <=> pc = "awaiting"
    /\ Len(child) = ClaimInFlight

\* What holds of every earlier process at the moment of a spawn.
C18_SpawnStep ==
    Len(execCalls') > Len(execCalls) =>
        /\ Len(execCalls') = Len(execCalls) + 1
        /\ Len(exits) = Len(execCalls)
        /\ settled = <<>>
        /\ Len(results) = idx - 1
        /\ \A j \in 1..Len(execCalls) :
             LET k == execCalls[j].forDep
             IN /\ k < idx
                /\ ClaimClassified(exits[j], results[k].success, results[k].message)
                /\ \E at \in 0..(Len(logs) - 5) :
                     SubSeq(logs, at + 1, at + 5) =
                         ClaimProcessLines(execCalls[j].command, exits[j],
                                           results[k].success, results[k].message)

C18_OneProcessAtATime == [](C18_AtMostOneInFlight) /\ [][C18_SpawnStep]_vars

\* The second process of a run is in flight; the first has completed and
\* has its five lines in the log and its result in the results.
C18_Witness ==
    /\ pc = "awaiting"
    /\ idx = 2
    /\ Len(execCalls) = 2
    /\ Len(exits) = 1
    /\ Len(results) = 1
    /\ Len(logs) = 5

(***************************************************************************)
(* C19.  Exactly one child process is spawned for each dependency that     *)
(* passes name and option validation, running the command composed for it, *)
(* and none for a dependency rejected by validation; the number of         *)
(* processes spawned in a run is the number of dependencies that passed.   *)
(***************************************************************************)
\* The tokens of the command of a valid dependency.
ClaimEffectiveTokens(dep) ==
    IF ClaimOverride(dep) THEN ClaimOwnTokens(dep.options)
    ELSE ClaimGlobalTokens(installOptions.globalOptions) \o ClaimOwnTokens(dep.options)

\* The entry of results of a dependency that validation rejected.
ClaimRejectionEntry(k) ==
    /\ ~results[k].success
    /\ results[k].message \in {ClaimInvalidNameMessage(Deps[k].name),
                               ClaimInvalidOptionsMessage(Deps[k].name)}

C19_OneProcessPerValidDependency ==
    /\ \A k \in 1..Len(Deps) :
         /\ Cardinality(CallsFor(k)) <= 1
         /\ Started(k) =>
              /\ ClaimValid(Deps[k]) =>
                   /\ Cardinality(CallsFor(k)) = 1
                   /\ \A j \in CallsFor(k) :
                        execCalls[j].command =
                            ClaimCommand(Deps[k].name, ClaimEffectiveTokens(Deps[k]))
              /\ ClaimInvalid(Deps[k]) => CallsFor(k) = {}
         /\ k < idx => (ClaimRejectionEntry(k) <=> CallsFor(k) = {})
         /\ ~Started(k) => CallsFor(k) = {}
    /\ report # <<>> =>
         /\ Len(execCalls) = Cardinality({ k \in 1..Len(Deps) : ~ClaimRejectionEntry(k) })
         /\ Len(execCalls) >= Cardinality({ k \in 1..Len(Deps) : ClaimValid(Deps[k]) })
         /\ Len(execCalls) <= Len(Deps) - Cardinality({ k \in 1..Len(Deps) : ClaimInvalid(Deps[k]) })

\* The report of a run over a valid dependency and one rejected for its
\* options: one process.
C19_Witness ==
    /\ report # <<>>
    /\ Len(Deps) = 2
    /\ ClaimValid(Deps[1])
    /\ ClaimNameAccepted(Deps[2].name)
    /\ ClaimInvalid(Deps[2])
    /\ Len(execCalls) = 1
    /\ execCalls[1].forDep = 1

(***************************************************************************)
(* C20.  When two invocations of installDependencies run concurrently,     *)
(* interleaved in any way at the completions of their processes, the       *)
(* logsArray and the details each one returns hold exactly the entries     *)
(* produced for its own dependencies, in its own declaration order, and no *)
(* entry produced by the other invocation.                                 *)
(***************************************************************************)
\* Both invocations, by their locals.
ClaimInvocations == {Frame} \cup { suspended[i] : i \in 1..Len(suspended) }

ClaimCallsOf(f, k) == { j \in 1..Len(f.execCalls) : f.execCalls[j].forDep = k }

ClaimMessageOf(o) ==
    IF o.error # Null THEN o.error.v ELSE IF o.stdout # <<>> THEN o.stdout ELSE o.stderr

\* The result invocation f owes to its k-th dependency: a rejection, or the
\* classification of the outcome of the dependency's own process.
ClaimEntryOf(f, k) ==
    LET dep == f.installOptions.dependencies[k]
        calls == ClaimCallsOf(f, k)
    IN IF calls = {}
       THEN [name |-> dep.name, success |-> FALSE,
             message |-> IF ClaimNameAccepted(dep.name)
                         THEN ClaimInvalidOptionsMessage(dep.name)
                         ELSE ClaimInvalidNameMessage(dep.name)]
       ELSE LET j == CHOOSE j \in calls : TRUE
            IN [name |-> dep.name, success |-> f.exits[j].error = Null,
                message |-> ClaimMessageOf(f.exits[j])]

\* The lines invocation f owes to its k-th dependency: the rejection
\* message, or the five lines of the dependency's own process once it has
\* completed.
ClaimLinesOf(f, k) ==
    LET calls == ClaimCallsOf(f, k)
    IN IF calls = {} THEN <<ClaimEntryOf(f, k).message>>
       ELSE LET j == CHOOSE j \in calls : TRUE
            IN IF j > Len(f.exits) THEN <<>>
               ELSE ClaimProcessLines(f.execCalls[j].command, f.exits[j],
                                      ClaimEntryOf(f, k).success, ClaimEntryOf(f, k).message)

RECURSIVE ClaimLogOf(_, _)
ClaimLogOf(f, k) == IF k = 0 THEN <<>> ELSE ClaimLogOf(f, k - 1) \o ClaimLinesOf(f, k)

\* The dependencies invocation f has begun to process.
ClaimBegun(f) == IF f.pc \in {"awaiting", "resolved"} THEN f.idx ELSE f.idx - 1

C20_OwnEntriesOnly ==
    \A f \in ClaimInvocations :
        /\ f.logs = ClaimLogOf(f, ClaimBegun(f))
        /\ f.results = [k \in 1..(f.idx - 1) |-> ClaimEntryOf(f, k)]
        /\ \A j \in 1..Len(f.execCalls) :
             IsPrefix(NPM_INSTALL \o <<" ">>
                          \o f.installOptions.dependencies[f.execCalls[j].forDep].name,
                      f.execCalls[j].command)
        /\ f.report # <<>> =>
             /\ f.report[1].logsArray = ClaimLogOf(f, Len(f.installOptions.dependencies))
             /\ f.report[1].details =
                  [k \in 1..Len(f.installOptions.dependencies) |-> ClaimEntryOf(f, k)]

\* Both invocations have returned, each after two processes, and the
\* console shows that their callbacks were interleaved: it is neither the
\* one log followed by the other.
C20_Witness ==
    /\ report # <<>>
    /\ Len(suspended) = 1
    /\ suspended[1].report # <<>>
    /\ Len(exits) = 2
    /\ Len(suspended[1].exits) = 2
    /\ console # logs \o suspended[1].logs
    /\ console # suspended[1].logs \o logs

(***************************************************************************)
(* C21.  Two runs of installDependencies given equal configurations, whose *)
(* child processes report equal outcomes (error, stdout, stderr) for equal *)
(* commands, return equal reports: the same success flag, the same details *)
(* and the same logs and logsArray, line for line.                         *)
(***************************************************************************)
\* Equal commands met equal outcomes, in the two runs and within each.
ClaimSameOutcomes(f, g) ==
    \A r \in {f, g}, t \in {f, g} :
        \A i \in 1..Len(r.exits), j \in 1..Len(t.exits) :
            r.execCalls[i].command = t.execCalls[j].command => r.exits[i] = t.exits[j]

C21_EqualRunsEqualReports ==
    \A f \in ClaimInvocations, g \in ClaimInvocations :
        (/\ f.id # g.id
         /\ f.installOptions = g.installOptions
         /\ f.report # <<>> /\ g.report # <<>>
         /\ ClaimSameOutcomes(f, g)) =>
            /\ f.report[1].success = g.report[1].success
            /\ f.report[1].details = g.report[1].details
            /\ f.report[1].logs = g.report[1].logs
            /\ f.report[1].logsArray = g.report[1].logsArray

\* Two runs of one configuration of two dependencies have returned, after a
\* rejection and a process with a warning each, their callbacks interleaved
\* with the other run's steps.
C21_Witness ==
    /\ Len(suspended) = 1
    /\ suspended[1].installOptions = installOptions
    /\ report # <<>> /\ suspended[1].report # <<>>
    /\ ClaimSameOutcomes(Frame, suspended[1])
    /\ Len(Deps) = 2
    /\ Len(exits) = 1
    /\ exits[1].stdout = <<>>
    /\ Len(report[1].logsArray) = 6
    /\ report[1] = suspended[1].report[1]
    /\ console # logs \o logs

(***************************************************************************)
(* C22.  In the returned report logs is the entries of logsArray joined by *)
(* newline characters, in the same order; during the run the log is only   *)
(* appended to: the log of a state is a prefix of the log of every later   *)
(* state, and no entry is removed, reordered or rewritten.                 *)
(***************************************************************************)
\* The characters of the joined text, by position: entry k starts after the
\* entries before it and one newline for each of them.
ClaimOffset(lines, k) ==
    LET RECURSIVE Sum(_)
        Sum(m) == IF m = 0 THEN 0 ELSE Sum(m - 1) + Len(lines[m]) + 1
    IN Sum(k - 1)

ClaimIsJoined(text, lines) ==
    /\ lines = <<>> => text = <<>>
    /\ lines # <<>> => Len(text) = ClaimOffset(lines, Len(lines)) + Len(lines[Len(lines)])
    /\ \A k \in 1..Len(lines) :
         /\ SubSeq(text, ClaimOffset(lines, k) + 1, ClaimOffset(lines, k) + Len(lines[k]))
              = lines[k]
         /\ k < Len(lines) => text[ClaimOffset(lines, k) + Len(lines[k]) + 1] = "\n"

C22_ReportedLog ==
    report # <<>> =>
        /\ report[1].logsArray = logs
        /\ ClaimIsJoined(report[1].logs, report[1].logsArray)

C22_AppendOnly == IsPrefix(logs, logs')

C22_LogIsJoinedAndAppendOnly == [](C22_ReportedLog) /\ [][C22_AppendOnly]_vars

\* A report of six lines: five newlines between them in logs.
C22_Witness ==
    /\ report # <<>>
    /\ Len(report[1].logsArray) = 6
    /\ Cardinality({ k \in 1..Len(report[1].logs) : report[1].logs[k] = "\n" }) = 5

(***************************************************************************)
(* C23.  An absent or empty option list, globalOptions or a dependency's   *)
(* own options, validates to the empty accepted sequence, never to the     *)
(* invalid marker, and contributes no tokens; and it never masks the       *)
(* rejection of the other list: a dependency with a valid name fails with  *)
(* 'Invalid options' when globalOptions is empty and its own options are   *)
(* rejected, and, unless it overrides, when globalOptions is rejected and  *)
(* its own options are empty.                                              *)
(***************************************************************************)
ClaimEmptyOwn(o) == ClaimOwnTokens(o) = <<>>

ClaimEmptyGlobal(g) == ClaimGlobalAbsent(g) \/ g = JsArray(<<>>)

\* The validators on an absent or empty list.
C23_EmptyValidatesToEmpty ==
    fn.out # <<>> =>
        /\ (fn.kind = "depOptions" /\ ClaimEmptyOwn(fn.in)) => fn.out[1] = JsArray(<<>>)
        /\ (fn.kind = "tokens" /\ fn.in = JsArray(<<>>)) => fn.out[1] = JsArray(<<>>)
        /\ (fn.kind = "globalOptions" /\ ClaimEmptyGlobal(fn.in)) => fn.out[1] = JsArray(<<>>)

\* What an empty list does to dependency k, whose name satisfies named.
C23_EmptyNeverMasks(k, named) ==
    LET dep == Deps[k]
        g == installOptions.globalOptions
        own == ClaimOwnTokens(dep.options)
        failsForOptions ==
            /\ CallsFor(k) = {}
            /\ k < idx => /\ ~results[k].success
                          /\ Contains(results[k].message, SubSeq(INVALID_OPTIONS, 1, 15))
    IN /\ (named /\ ClaimEmptyGlobal(g) /\ ~ClaimAllAccepted(own)) => failsForOptions
       /\ (named /\ ClaimGlobalInvalid(g) /\ ClaimEmptyOwn(dep.options)
           /\ ~ClaimOverride(dep)) => failsForOptions
       /\ (ClaimNameAccepted(dep.name) /\ ClaimEmptyGlobal(g) /\ ClaimAllAccepted(own)) =>
            \A j \in CallsFor(k) : execCalls[j].command = ClaimCommand(dep.name, own)
       /\ (ClaimNameAccepted(dep.name) /\ ClaimEmptyOwn(dep.options)
           /\ ClaimGlobalValid(g)) =>
            /\ Cardinality(CallsFor(k)) = 1
            /\ \A j \in CallsFor(k) :
                 execCalls[j].command =
                     ClaimCommand(dep.name, IF ClaimOverride(dep) THEN <<>>
                                            ELSE ClaimGlobalTokens(g))

C23_EmptyIsNotInvalid ==
    /\ C23_EmptyValidatesToEmpty
    /\ \A k \in 1..Len(Deps) : Started(k) => C23_EmptyNeverMasks(k, ClaimNameAccepted(Deps[k].name))

\* The statement for every dependency, whatever its name.
C23_Original ==
    /\ C23_EmptyValidatesToEmpty
    /\ \A k \in 1..Len(Deps) : Started(k) => C23_EmptyNeverMasks(k, TRUE)

\* A non-overriding dependency without options of its own has failed for
\* the rejected globalOptions, with 'Invalid options for dependency: <name>'.
C23_Witness ==
    /\ Len(results) >= 1
    /\ ClaimNameAccepted(Deps[1].name)
    /\ Deps[1].options = JsString(<<" ">>)
    /\ ~ClaimOverride(Deps[1])
    /\ ClaimGlobalInvalid(installOptions.globalOptions)
    /\ results[1].message = ClaimInvalidOptionsMessage(Deps[1].name)
    /\ execCalls = <<>>

\* A dependency with rejected options of its own has failed for them under
\* globalOptions null.
C23_WitnessOwn ==
    /\ Len(results) >= 1
    /\ ClaimNameAccepted(Deps[1].name)
    /\ installOptions.globalOptions = Null
    /\ ~ClaimAllAccepted(ClaimOwnTokens(Deps[1].options))
    /\ results[1].message = ClaimInvalidOptionsMessage(Deps[1].name)

(***************************************************************************)
(* C24.  If every spawned child process eventually calls its completion    *)
(* callback, installDependencies eventually settles with a report that     *)
(* covers every dependency.  While a child process has not completed the   *)
(* operation is not settled, no later dependency is validated or spawned   *)
(* and no partial report exists; the completion of that process is the     *)
(* only step that ends this, so a process that never completes leaves it   *)
(* so for ever.                                                            *)
(***************************************************************************)
C24_Settled == report # <<>> /\ Len(report[1].details) = Len(Deps)

C24_WaitingForProcess ==
    /\ pc = "awaiting" =>
         /\ report = <<>>
         /\ Len(results) = idx - 1
         /\ Len(execCalls) = Len(exits) + 1
         /\ execCalls[Len(execCalls)].forDep = idx
         /\ \A k \in (idx + 1)..Len(Deps) : CallsFor(k) = {}
         /\ Len(logs) = 5 * Len(exits)
                        + Cardinality({ k \in 1..(idx - 1) : CallsFor(k) = {} })
    /\ report # <<>> => (Len(exits) = Len(execCalls) /\ Len(report[1].details) = Len(Deps))

\* The one step of a run that waits for a process: the callback of exec.
C24_OnlyCompletionResumes ==
    pc = "awaiting" =>
        /\ pc' = "resolved"
        /\ Len(exits') = Len(exits) + 1
        /\ idx' = idx
        /\ results' = results
        /\ execCalls' = execCalls
        /\ report' = <<>>

C24_SettlesIffProcessesComplete ==
    /\ <>C24_Settled
    /\ [](C24_WaitingForProcess)
    /\ [][C24_OnlyCompletionResumes]_vars

\* The first of two processes has not completed: nothing is logged, no
\* result exists, the second dependency is untouched.
C24_Witness ==
    /\ pc = "awaiting"
    /\ Len(Deps) = 2
    /\ idx = 1
    /\ Len(execCalls) = 1
    /\ logs = <<>>
    /\ results = <<>>
    /\ report = <<>>

(***************************************************************************)
(* C25.  With verbose true or omitted every line appended to the log of a  *)
(* run is emitted to the console within the same logging step: in every    *)
(* reachable state of a single run the console emissions are the log,      *)
(* entry for entry and in the same order.                                  *)
(***************************************************************************)
C25_ConsoleIsLog == ClaimVerboseOn => console = logs

\* What a step appends to the log it appends to the console.
C25_SameStep ==
    ClaimVerboseOn =>
        /\ IsPrefix(console, console')
        /\ SubSeq(console', Len(console) + 1, Len(console'))
             = SubSeq(logs', Len(logs) + 1, Len(logs'))

C25_ConsoleMirrorsLog == [](C25_ConsoleIsLog) /\ [][C25_SameStep]_vars

\* A run with verbose true has rejected its first dependency and completed
\* a process for its second: six lines in the log and on the console.
C25_Witness ==
    /\ installOptions.verbose = "true"
    /\ Len(Deps) = 2
    /\ CallsFor(1) = {}
    /\ Len(exits) = 1
    /\ Len(logs) = 6
    /\ console = logs

(***************************************************************************)
(* C26.  Every line the Logger appends to the log of a run is exactly the  *)
(* message it was given, and carries no timestamp.                         *)
(***************************************************************************)
\* A date as toISOString writes it begins with four digits and a hyphen.
ClaimTimestamped(line) ==
    \E k \in 1..(Len(line) - 4) :
        /\ \A m \in k..(k + 3) : line[m] \in Digit
        /\ line[k + 4] = "-"

\* The statement that every line of the log carries a timestamp.
C26_Original == \A j \in 1..Len(logs) : ClaimTimestamped(logs[j])

C26_LinesAreMessages ==
    /\ logs = ClaimLogOf(Frame, ClaimBegun(Frame))
    /\ \A j \in 1..Len(logs) : ~ClaimTimestamped(logs[j])
    /\ \A k \in 1..Len(results) : CallsFor(k) = {} => InLog(results[k].message)

\* The log of a rejected dependency: one line, the message of its result.
C26_Witness ==
    /\ Len(results) = 1
    /\ execCalls = <<>>
    /\ logs = <<results[1].message>>
    /\ results[1].message = ClaimInvalidNameMessage(Deps[1].name)

(***************************************************************************)
(* C27.  installDependencies never mutates the configuration of its        *)
(* caller: globalOptions, the dependencies sequence and the name, options  *)
(* and override of each dependency are after every step of the run what    *)
(* they were before it, whether the dependency at hand is rejected, fails  *)
(* in execution or succeeds.                                               *)
(***************************************************************************)
C27_StepKeepsConfiguration ==
    /\ installOptions'.globalOptions = installOptions.globalOptions
    /\ installOptions'.verbose = installOptions.verbose
    /\ Len(installOptions'.dependencies) = Len(installOptions.dependencies)
    /\ \A k \in 1..Len(installOptions.dependencies) :
         /\ installOptions'.dependencies[k].name = installOptions.dependencies[k].name
         /\ installOptions'.dependencies[k].options = installOptions.dependencies[k].options
         /\ installOptions'.dependencies[k].override = installOptions.dependencies[k].override

C27_ConfigurationNotMutated == [][C27_StepKeepsConfiguration]_vars

\* A process has been spawned for a second dependency whose tokens follow
\* those of the globalOptions array in the command; the array holds its one
\* token as before.
C27_Witness ==
    /\ Len(execCalls) = 2
    /\ installOptions.globalOptions = JsArray(<< <<"-", "-", "x">> >>)
    /\ Deps[2].options = JsArray(<< <<"-", "D">> >>)
    /\ execCalls[2].command =
         ClaimCommand(Deps[2].name, << <<"-", "-", "x">>, <<"-", "D">> >>)

(***************************************************************************)
(* C28.  A dependency rejected by validation contributes exactly one line  *)
(* to the log, equal to the message of its result, and a spawned one       *)
(* contributes exactly five; at the return the length of logsArray is five *)
(* times the number of spawned processes plus the number of rejected       *)
(* dependencies, and zero for an empty dependency list.                    *)
(***************************************************************************)
\* The dependencies processed so far that validation rejected.
ClaimRejectedSoFar == { k \in 1..Len(results) : CallsFor(k) = {} }

C28_LineCount ==
    /\ Len(logs) = 5 * Len(exits) + Cardinality(ClaimRejectedSoFar)
    /\ report # <<>> =>
         /\ Len(report[1].logsArray)
              = 5 * Len(execCalls)
                + Cardinality({ k \in 1..Len(Deps) : CallsFor(k) = {} })
         /\ Len(execCalls) + Cardinality({ k \in 1..Len(Deps) : CallsFor(k) = {} }) = Len(Deps)
         /\ Deps = <<>> => report[1].logsArray = <<>>

\* A rejection appends one line, the message of the result it pushes; a
\* completion appends five; no other step appends.
C28_LinesPerStep ==
    /\ (pc = "loop" /\ Len(results') = Len(results) + 1) =>
         /\ logs' = Append(logs, results'[Len(results')].message)
         /\ ~results'[Len(results')].success
    /\ Len(exits') = Len(exits) + 1 => Len(logs') = Len(logs) + 5
    /\ (Len(exits') = Len(exits) /\ ~(pc = "loop" /\ Len(results') = Len(results) + 1)) =>
         logs' = logs

C28_OneOrFiveLines == [](C28_LineCount) /\ [][C28_LinesPerStep]_vars

\* The report of a run that spawned a process for its first dependency and
\* rejected the options of its second: five lines and one.
C28_Witness ==
    /\ report # <<>>
    /\ Len(Deps) = 2
    /\ CallsFor(1) # {}
    /\ CallsFor(2) = {}
    /\ Len(report[1].logsArray) = 6
    /\ report[1].logsArray[6] = report[1].details[2].message
    /\ report[1].details[2].message = ClaimInvalidOptionsMessage(Deps[2].name)

(***************************************************************************)
(* C29.  The 'command:' line of a process is appended to the log inside    *)
(* the completion callback of that process and never at the spawn: while a *)
(* child process is running, or hung, the log holds no line of that        *)
(* process, and any line that mentions its command string is a line of an  *)
(* earlier, completed process with that string in its own command.         *)
(***************************************************************************)
C29_SpawnLogsNothing ==
    /\ Len(execCalls') > Len(execCalls) => (logs' = logs /\ console' = console)
    /\ Len(exits') > Len(exits) =>
         /\ Len(logs') > Len(logs)
         /\ logs'[Len(logs) + 1]
              = ClaimCommandPrefix \o <<" ">> \o execCalls[Len(exits')].command

C29_NoLineWhileInFlight ==
    /\ Len(ClaimCommandLines(logs)) = Len(exits)
    /\ pc = "awaiting" =>
         LET c == execCalls[Len(execCalls)].command
         IN /\ Len(exits) = Len(execCalls) - 1
            /\ \A n \in 1..Len(logs) :
                 Contains(logs[n], c) =>
                     \E j \in 1..Len(exits) :
                         /\ Contains(execCalls[j].command, c)
                         /\ logs[n] = ClaimCommandPrefix \o <<" ">> \o execCalls[j].command

ClaimFlagShaped(name) == name # <<>> /\ name[1] = "-"

C30_NameValidatorAcceptsFlags ==
    (fn.kind = "name" /\ fn.out # <<>> /\ ClaimFlagShaped(fn.in)) =>
        fn.out[1] = ~ClaimHasBadNameChar(fn.in)

C30_FlagNameIsSpawned ==
    \A k \in 1..Len(Deps) :
        ( /\ Started(k)
          /\ ClaimFlagShaped(Deps[k].name)
          /\ ~ClaimHasBadNameChar(Deps[k].name)
          /\ ClaimAllAccepted(ClaimOwnTokens(Deps[k].options))
          /\ ClaimOverride(Deps[k]) \/ ClaimGlobalValid(installOptions.globalOptions) )
        => \E j \in CallsFor(k) :
               execCalls[j].command
                 = ClaimCommand(Deps[k].name, ClaimEffectiveTokens(Deps[k]))

C30_FlagShapedNamesPass == C30_NameValidatorAcceptsFlags /\ C30_FlagNameIsSpawned

\* The command 'npm install --S' has been spawned for a dependency named
\* '--S', a token that the option token validator rejects.
C30_Witness ==
    /\ Len(execCalls) = 1
    /\ Deps[execCalls[1].forDep].name = <<"-", "-", "S">>
    /\ ~ClaimTokenAccepted(<<"-", "-", "S">>)
    /\ validateOptionTokens(JsArray(<< <<"-", "-", "S">> >>)) = Null
    /\ execCalls[1].command = NPM_INSTALL \o <<" ", "-", "-", "S">>

(***************************************************************************)
(* C31.  A token that matches SHORT_FLAG_REGEX or LONG_FLAG_REGEX holds no *)
(* character of DISALLOWED_CHARS_REGEX, so validateOptionTokens returns    *)
(* its argument exactly when every token matches one of the two shapes:    *)
(* the test of the disallowed characters rejects no token that the shape   *)
(* test lets through.                                                      *)
(***************************************************************************)
ClaimShaped(token) == SHORT_FLAG_REGEX(token) \/ LONG_FLAG_REGEX(token)

C31_ShapeTestDecides ==
    (fn.kind = "tokens" /\ fn.out # <<>>) =>
        /\ \A k \in 1..Len(fn.in.v) :
               ClaimShaped(fn.in.v[k]) => ~DISALLOWED_CHARS_REGEX(fn.in.v[k])
        /\ fn.out[1] = IF \A k \in 1..Len(fn.in.v) : ClaimShaped(fn.in.v[k])
                       THEN fn.in
                       ELSE Null

\* validateOptionTokens has returned its argument, a short flag and a long
\* flag, neither with a disallowed character.
C31_Witness ==
    /\ fn.kind = "tokens"
    /\ fn.in = JsArray(<< <<"-", "a">>, <<"-", "-", "a">> >>)
    /\ fn.out = <<fn.in>>
    /\ SHORT_FLAG_REGEX(fn.in.v[1])
    /\ LONG_FLAG_REGEX(fn.in.v[2])
    /\ \A k \in 1..2 : ~DISALLOWED_CHARS_REGEX(fn.in.v[k])

=============================================================================
